---- MODULE Spec2Model ----
(***************************************************************************)
(* A model of the Generic-RAG indexing pipeline: the Neo4j persistence     *)
(* client, the entity/relationship extraction stage, the deterministic     *)
(* writers of the GLOBAL nodes, the provider failover and the chunker.     *)
(*                                                                         *)
(* The graph store is a record of bags of nodes and sets of edges.  A bag  *)
(* (not a set) of nodes lets a write that creates a second node with the   *)
(* same natural key show up as a duplicate.  Strings the code inspects     *)
(* (names, descriptions, chunk text) are sequences of one-character        *)
(* strings; strings it only compares are TLA+ strings.                     *)
(***************************************************************************)
EXTENDS Integers, Sequences, FiniteSets, Bags, TLC

VARIABLES
    graph,      \* the Neo4j store: nodes and edges by label
    call,       \* the operation last applied, its arguments and, for an
                \* upsert, the nodes its MERGE matched
    ret,        \* what that operation returned, or that it raised
    openai_key, \* whether OPENAI_API_KEY is set (fixed at import)
    groq_key,   \* whether GROQ_API_KEY is set (fixed at import)
    llm         \* the last logical chat_completion call: the provider
                \* attempts it made, in order, and whether it raised

vars == <<graph, call, ret, openai_key, groq_key, llm>>

(***************************************************************************)
(* Bounds of the model.                                                    *)
(***************************************************************************)
MaxRels == 1        \* Entity-to-Entity edges the store may hold

(***************************************************************************)
(* Input domains.                                                          *)
(***************************************************************************)
DEFAULT_DOC_ID == "doc-1"

DocIds == {DEFAULT_DOC_ID, "report"}

Names == {<<"a">>, <<"b">>}

\* The (doc_id, name) keys the entity upserts of Spec are applied to: one
\* name in two documents.
EntityKeys == {<<DEFAULT_DOC_ID, <<"a">>>>, <<"report", <<"a">>>>}

EntityTypes == {"ORGANIZATION", "PERSON"}

Descriptions == {<<>>, <<"x">>, <<"y">>, <<"x", "y">>}

Saliences == {"CORE", "IMPORTANT", "SUPPORTING"}

\* The keys the relationship calls of SpecRel find entities under.
RelEntityKeys ==
    {<<DEFAULT_DOC_ID, <<"a">>>>, <<DEFAULT_DOC_ID, <<"b">>>>, <<"report", <<"a">>>>}

\* Relationship types as callers pass them: an allowed one, an allowed one
\* in lower case, and one outside the allowed set.
RelTypeInputs == {"DEFINES", "refers_to", "OWNS"}

RelDescriptions == {<<>>, <<"x">>}

(***************************************************************************)
(* The store.                                                              *)
(***************************************************************************)
EmptyGraph ==
    [entities |-> EmptyBag,     \* (:Entity) nodes
     rels     |-> EmptyBag,     \* Entity-to-Entity edges
     sections |-> EmptyBag,     \* (:Section) nodes
     mentions |-> {},           \* (:Section)-[:MENTIONS]->(:Entity)
     facts    |-> EmptyBag,     \* (:FinancialFact) nodes
     timeperiods   |-> EmptyBag,    \* (:TimePeriod) nodes
     applies_to    |-> {},          \* (:Section)-[:APPLIES_TO]->(:TimePeriod)
     concepts      |-> EmptyBag,    \* (:FinancialConcept) nodes
     normalized_to |-> {},          \* (:Entity)-[:NORMALIZED_TO]->(:FinancialConcept)
     references    |-> {},          \* (:Section)-[:REFERS_TO]->(:Reference)-[:POINTS_TO]->(:Section)
     communities   |-> EmptyBag,    \* (:Community) nodes
     contains      |-> {},          \* (:Community)-[:CONTAINS]->(:Section)
     states        |-> {},          \* (:Section)-[:STATES]->(:FinancialFact)
     measures      |-> {},          \* (:FinancialFact)-[:MEASURES]->(:Entity)
     summaries     |-> {},          \* (:CommunitySummary) nodes
     summarized    |-> {}]          \* the (:Community) nodes created with a HAS_SUMMARY edge

NoLlm == [called |-> FALSE, attempts |-> <<>>, raised |-> FALSE]

NoCall == [op |-> "none"]

NoRet == [raised |-> FALSE]

\* MATCH (e:Entity {doc_id: $doc_id, name: $name})
MatchEntity(g, doc_id, name) ==
    {e \in BagToSet(g.entities) : e.doc_id = doc_id /\ e.name = name}

\* Neo4jClient.clear_graph: MATCH (n) DETACH DELETE n
clear_graph(g) == EmptyGraph

\* create_entity with ON MATCH SET e.salience = $salience: the stored salience
\* follows the last upsert.
create_entity_salience_overwritten(g, name, entity_type, description, salience, doc_id) ==
    LET created == [doc_id      |-> doc_id,
                    name        |-> name,
                    type        |-> entity_type,
                    description |-> description,
                    salience    |-> salience]
        on_match(e) ==
            IF e.doc_id = doc_id /\ e.name = name
            THEN [e EXCEPT
                    !.description =
                        IF Len(description) > Len(e.description)
                        THEN description ELSE e.description,
                    !.salience = salience]
            ELSE e
    IN  [g EXCEPT !.entities =
            IF MatchEntity(g, doc_id, name) # {}
            THEN BagOfAll(on_match, g.entities)
            ELSE g.entities (+) SetToBag({created})]

\* create_entity with CREATE in place of MERGE: every call adds a node.
create_entity_always_creates(g, name, entity_type, description, salience, doc_id) ==
    [g EXCEPT !.entities =
        g.entities (+) SetToBag({[doc_id      |-> doc_id,
                                  name        |-> name,
                                  type        |-> entity_type,
                                  description |-> description,
                                  salience    |-> salience]})]

\* create_entity with size($description) >= size(e.description): a description
\* of equal length overwrites the stored one.
create_entity_equal_length_wins(g, name, entity_type, description, salience, doc_id) ==
    LET created == [doc_id      |-> doc_id,
                    name        |-> name,
                    type        |-> entity_type,
                    description |-> description,
                    salience    |-> salience]
        on_match(e) ==
            IF e.doc_id = doc_id /\ e.name = name
            THEN [e EXCEPT
                    !.description =
                        IF Len(description) >= Len(e.description)
                        THEN description ELSE e.description,
                    !.salience =
                        IF e.salience = "SUPPORTING"
                           /\ salience \in {"CORE", "IMPORTANT"}
                        THEN salience ELSE e.salience]
            ELSE e
    IN  [g EXCEPT !.entities =
            IF MatchEntity(g, doc_id, name) # {}
            THEN BagOfAll(on_match, g.entities)
            ELSE g.entities (+) SetToBag({created})]

\* Neo4jClient.create_entity: MERGE on (doc_id, name); ON CREATE sets every
\* field, ON MATCH keeps the longer description and promotes a SUPPORTING
\* salience to CORE or IMPORTANT.
create_entity(g, name, entity_type, description, salience, doc_id) ==
    LET created == [doc_id      |-> doc_id,
                    name        |-> name,
                    type        |-> entity_type,
                    description |-> description,
                    salience    |-> salience]
        on_match(e) ==
            IF e.doc_id = doc_id /\ e.name = name
            THEN [e EXCEPT
                    !.description =
                        IF Len(description) > Len(e.description)
                        THEN description ELSE e.description,
                    !.salience =
                        IF e.salience = "SUPPORTING"
                           /\ salience \in {"CORE", "IMPORTANT"}
                        THEN salience ELSE e.salience]
            ELSE e
    IN  [g EXCEPT !.entities =
            IF MatchEntity(g, doc_id, name) # {}
            THEN BagOfAll(on_match, g.entities)
            ELSE g.entities (+) SetToBag({created})]

\* RETURN e.name AS name, e.salience AS salience ... .single()
create_entity_result(g, name, doc_id) ==
    LET e == CHOOSE x \in MatchEntity(g, doc_id, name) : TRUE
    IN  [name |-> e.name, salience |-> e.salience]

(***************************************************************************)
(* Strings.                                                                *)
(***************************************************************************)
\* str.upper() on the relationship types of the model.
upper(rel_type) ==
    CASE rel_type = "refers_to" -> "REFERS_TO"
      [] rel_type = "defines"   -> "DEFINES"
      [] OTHER                  -> rel_type

IsSpace(c) == c \in {" ", "\t", "\n"}

\* normalize_name: " ".join(name.strip().split()) if name else ""
normalize_name(name) ==
    LET joined[i \in 0..Len(name)] ==
            IF i = 0 THEN <<>>
            ELSE IF IsSpace(name[i]) THEN joined[i - 1]
            ELSE IF i > 1 /\ IsSpace(name[i - 1]) /\ joined[i - 1] # <<>>
                 THEN joined[i - 1] \o <<" ", name[i]>>
                 ELSE Append(joined[i - 1], name[i])
    IN  joined[Len(name)]

\* allowed = {"DEFINES", "DETAILS", "REFERS_TO", "ASSOCIATED_WITH"}
allowed == {"DEFINES", "DETAILS", "REFERS_TO", "ASSOCIATED_WITH"}

\* Neo4jClient.create_relationship, the write: nothing for a type outside
\* the allowed set; otherwise MATCH both endpoints in the document and MERGE
\* the typed edge between them, then SET its description.
create_relationship(g, source_name, target_name, rel_type, description, doc_id) ==
    LET rt == upper(rel_type)
        hit(r) == /\ r.doc_id = doc_id /\ r.src = source_name
                  /\ r.tgt = target_name /\ r.type = rt
        set_desc(r) == IF hit(r) THEN [r EXCEPT !.description = description] ELSE r
        created == [doc_id |-> doc_id, src |-> source_name, tgt |-> target_name,
                    type |-> rt, description |-> description]
    IN  IF rt \notin allowed THEN g
        ELSE IF MatchEntity(g, doc_id, source_name) = {}
                \/ MatchEntity(g, doc_id, target_name) = {} THEN g
        ELSE [g EXCEPT !.rels =
                IF \E r \in BagToSet(g.rels) : hit(r)
                THEN BagOfAll(set_desc, g.rels)
                ELSE g.rels (+) SetToBag({created})]

\* Neo4jClient.create_relationship, whether the statement merges an edge:
\* the type is allowed and both MATCH clauses find an entity of the document.
merges_edge(g, source_name, target_name, rel_type, doc_id) ==
    /\ upper(rel_type) \in allowed
    /\ MatchEntity(g, doc_id, source_name) # {}
    /\ MatchEntity(g, doc_id, target_name) # {}

\* Neo4jClient.create_relationship, the value returned.
create_relationship_result(rel_type) == upper(rel_type) \in allowed

\* Neo4jClient.create_section: MERGE on (doc_id, section_id); title and level
\* are set ON CREATE only.
create_section(g, section_id, title, level, doc_id) ==
    IF \E x \in BagToSet(g.sections) :
            x.doc_id = doc_id /\ x.section_id = section_id
    THEN g
    ELSE [g EXCEPT !.sections =
            @ (+) SetToBag({[doc_id |-> doc_id, section_id |-> section_id,
                             title |-> title, level |-> level]})]

\* Neo4jClient.link_entity_to_section: MATCH the section and the entity in
\* the document, MERGE the MENTIONS edge between them.
link_entity_to_section(g, entity_name, section_id, doc_id) ==
    IF /\ \E x \in BagToSet(g.sections) :
            x.doc_id = doc_id /\ x.section_id = section_id
       /\ MatchEntity(g, doc_id, entity_name) # {}
    THEN [g EXCEPT !.mentions =
            @ \cup {[doc_id |-> doc_id, section_id |-> section_id,
                     name |-> entity_name]}]
    ELSE g

(***************************************************************************)
(* JSON values, as json.loads returns them.  t is the Python type; v is    *)
(* the value where the code reads it: the characters of a name, the        *)
(* string of a type or salience, the items of a list, the keys of an       *)
(* object.                                                                 *)
(***************************************************************************)
JNull == [t |-> "null"]

JStr(s) == [t |-> "str", v |-> s]

JNum == [t |-> "num"]               \* a number other than 0

JList(items) == [t |-> "list", v |-> items]

JObj(fields) == [t |-> "object", v |-> fields]

\* dict.get(key, default)
dict_get(o, key, default) == IF key \in DOMAIN o.v THEN o.v[key] ELSE default

\* bool(x)
truthy(x) ==
    CASE x.t = "null"   -> FALSE
      [] x.t = "num"    -> TRUE
      [] x.t = "str"    -> x.v # <<>>
      [] x.t = "list"   -> x.v # <<>>
      [] x.t = "object" -> DOMAIN x.v # {}

(***************************************************************************)
(* Provider failover.  An outcome is 0 when the provider's API call        *)
(* raises, and otherwise the index of the content the provider returns.    *)
(***************************************************************************)
Attempt(provider, outcome) == [provider |-> provider, failed |-> outcome = 0]

\* MAX_RETRIES of settings.py, which no chat_completion reads.
MAX_RETRIES == 3

\* bot3 chat_completion with the primary provider retried up to MAX_RETRIES
\* times before the fallback.
bot3_chat_completion_retrying(openai_client, groq_client, openai_outcome, groq_outcome) ==
    LET tried == IF openai_client
                 THEN IF openai_outcome # 0
                      THEN <<Attempt("openai", openai_outcome)>>
                      ELSE [i \in 1..MAX_RETRIES |-> Attempt("openai", openai_outcome)]
                 ELSE <<>>
    IN  IF openai_client /\ openai_outcome # 0
        THEN [called |-> TRUE, attempts |-> tried, raised |-> FALSE,
              response |-> openai_outcome]
        ELSE IF groq_client
        THEN [called |-> TRUE,
              attempts |-> Append(tried, Attempt("groq", groq_outcome)),
              raised |-> groq_outcome = 0, response |-> groq_outcome]
        ELSE [called |-> TRUE, attempts |-> tried, raised |-> TRUE,
              response |-> 0]

\* bot3_extractor.chat_completion: OpenAI if its client exists, Groq if
\* OpenAI is absent or raised, RuntimeError if neither returned.  A Groq
\* exception propagates.
bot3_chat_completion(openai_client, groq_client, openai_outcome, groq_outcome) ==
    LET tried == IF openai_client
                 THEN <<Attempt("openai", openai_outcome)>> ELSE <<>>
    IN  IF openai_client /\ openai_outcome # 0
        THEN [called |-> TRUE, attempts |-> tried, raised |-> FALSE,
              response |-> openai_outcome]
        ELSE IF groq_client
        THEN [called |-> TRUE,
              attempts |-> Append(tried, Attempt("groq", groq_outcome)),
              raised |-> groq_outcome = 0, response |-> groq_outcome]
        ELSE [called |-> TRUE, attempts |-> tried, raised |-> TRUE,
              response |-> 0]

\* The outcomes of a provider asked for free text: 0 when the call raises
\* (or the content is None, so that .strip() raises), 1 when it returns text.
TextOutcomes == {0, 1}

\* global_query_v4.chat_completion: as bot3's, with the clients built on
\* demand from the keys and the content read inside the try.
query_chat_completion(openai_api_key, groq_api_key, openai_outcome, groq_outcome) ==
    LET tried == IF openai_api_key
                 THEN <<Attempt("openai", openai_outcome)>> ELSE <<>>
    IN  IF openai_api_key /\ openai_outcome # 0
        THEN [called |-> TRUE, attempts |-> tried, raised |-> FALSE,
              response |-> openai_outcome]
        ELSE IF groq_api_key
        THEN [called |-> TRUE,
              attempts |-> Append(tried, Attempt("groq", groq_outcome)),
              raised |-> groq_outcome = 0, response |-> groq_outcome]
        ELSE [called |-> TRUE, attempts |-> tried, raised |-> TRUE,
              response |-> 0]

\* bot9_community_summarization.chat_completion
bot9_chat_completion(openai_api_key, groq_api_key, openai_outcome, groq_outcome) ==
    LET tried == IF openai_api_key
                 THEN <<Attempt("openai", openai_outcome)>> ELSE <<>>
    IN  IF openai_api_key /\ openai_outcome # 0
        THEN [called |-> TRUE, attempts |-> tried, raised |-> FALSE,
              response |-> openai_outcome]
        ELSE IF groq_api_key
        THEN [called |-> TRUE,
              attempts |-> Append(tried, Attempt("groq", groq_outcome)),
              raised |-> groq_outcome = 0, response |-> groq_outcome]
        ELSE [called |-> TRUE, attempts |-> tried, raised |-> TRUE,
              response |-> 0]

(***************************************************************************)
(* The entity/relationship stage (bot3_extractor).                         *)
(***************************************************************************)
\* str.strip()
strip(text) ==
    LET inked == {i \in 1..Len(text) : ~IsSpace(text[i])}
    IN  IF inked = {} THEN <<>>
        ELSE SubSeq(text,
                    CHOOSE i \in inked : \A j \in inked : i <= j,
                    CHOOSE i \in inked : \A j \in inked : i >= j)

\* list[:n]
take(list, n) == SubSeq(list, 1, IF Len(list) < n THEN Len(list) ELSE n)

\* _safe_list
safe_list(v) == IF v.t = "list" THEN v.v ELSE <<>>

\* LIMITS of the extraction: entities[:25], relationships[:30]
MAX_ENTITIES_PER_CHUNK == 25

MAX_RELATIONSHIPS_PER_CHUNK == 30

\* ALLOWED_REL_TYPES of bot3_extractor
ALLOWED_REL_TYPES == {"DEFINES", "DETAILS", "REFERS_TO", "ASSOCIATED_WITH"}

Ent(name, type, description, salience) ==
    JObj([name |-> JStr(name), type |-> JStr(type),
          description |-> JStr(description), salience |-> JStr(salience)])

Rel(source, target, type, description) ==
    JObj([source |-> JStr(source), target |-> JStr(target),
          type |-> JStr(type), description |-> JStr(description)])

Payload(entities, relationships) ==
    [json |-> TRUE,
     value |-> JObj([entities |-> entities, relationships |-> relationships])]

\* What response.choices[0].message.content may hold: json is whether
\* json.loads accepts it, value what it returns.
Contents ==
    << \* 1: a well-formed extraction; "HIGH" is no salience, "defines" is
       \*    a lower-case type
       Payload(JList(<<Ent(<<"a">>, "ORGANIZATION", <<"x">>, "CORE"),
                       Ent(<<" ", "b", " ">>, "PERSON", <<>>, "HIGH")>>),
               JList(<<Rel(<<"a">>, <<"b">>, "defines", <<"x">>)>>)),
       \* 2: relationships the stage drops: a self-loop after normalization,
       \*    an unmapped type, an empty endpoint, an endpoint naming no entity
       Payload(JList(<<Ent(<<"a">>, "ORGANIZATION", <<"x", "y">>, "SUPPORTING")>>),
               JList(<<Rel(<<"a">>, <<"a", " ">>, "DEFINES", <<>>),
                       Rel(<<"a">>, <<"b">>, "OWNS", <<>>),
                       Rel(<<"a">>, <<" ">>, "DEFINES", <<>>),
                       Rel(<<"a">>, <<"c">>, "REFERS_TO", <<>>)>>)),
       \* 3: the fail-safe answer of the prompt
       Payload(JList(<<>>), JList(<<>>)),
       \* 4: not JSON (or content is None)
       [json |-> FALSE],
       \* 5: JSON, but a list
       [json |-> TRUE, value |-> JList(<<>>)],
       \* 6: entities and relationships that are no lists
       Payload(JStr(<<"a">>), JObj([a |-> JNull])),
       \* 7: an object without the two keys
       [json |-> TRUE, value |-> JObj([note |-> JNull])],
       \* 8: an entity item that is a string
       Payload(JList(<<JStr(<<"a">>)>>), JList(<<>>)),
       \* 9: an entity whose name is a number
       Payload(JList(<<JObj([name |-> JNum])>>), JList(<<>>)),
       \* 10: an entity whose name is null, a relationship whose type is null
       Payload(JList(<<JObj([name |-> JNull])>>),
               JList(<<JObj([source |-> JStr(<<"a">>), target |-> JStr(<<"b">>),
                             type |-> JNull])>>)),
       \* 11: a valid entity, then a relationship item that is a string
       Payload(JList(<<Ent(<<"b">>, "PERSON", <<"y">>, "IMPORTANT")>>),
               JList(<<JStr(<<"a">>)>>)) >>

Outcomes == 0..Len(Contents)

\* What the two providers would do in one logical call.  The fallback's
\* outcome is read only when the primary is absent or raises, so one of the
\* two outcomes is left at 0.
BackendRuns ==
    {run \in Outcomes \X Outcomes : run[1] = 0 \/ run[2] = 0}

\* The backend runs to tell apart for one call: the backend's behaviour is
\* left open only where the call's arguments are not those of an empty chunk.
RunsFor(runs, text, is_empty) ==
    IF is_empty \/ \A i \in 1..Len(text) : IsSpace(text[i])
    THEN {<<0, 0>>} ELSE runs

EmptyExtraction == [entities |-> <<>>, relationships |-> <<>>]

\* extract_entities_and_relationships with the guard "if is_empty:" alone:
\* a whitespace-only text reaches the backend.
extract_without_text_check(text, is_empty, openai_outcome, groq_outcome) ==
    IF is_empty
    THEN [extraction |-> EmptyExtraction, llm |-> NoLlm]
    ELSE
      LET cc == bot3_chat_completion(openai_key, groq_key,
                                     openai_outcome, groq_outcome)
          log == [called |-> cc.called, attempts |-> cc.attempts,
                  raised |-> cc.raised]
      IN  IF cc.raised \/ ~Contents[cc.response].json
             \/ Contents[cc.response].value.t # "object"
          THEN [extraction |-> EmptyExtraction, llm |-> log]
          ELSE [extraction |->
                  [entities |->
                      take(safe_list(dict_get(Contents[cc.response].value,
                                              "entities", JNull)),
                           MAX_ENTITIES_PER_CHUNK),
                   relationships |->
                      take(safe_list(dict_get(Contents[cc.response].value,
                                              "relationships", JNull)),
                           MAX_RELATIONSHIPS_PER_CHUNK)],
                llm |-> log]

\* extract_entities_and_relationships: the extraction and the logical
\* chat_completion call it made (none for an empty chunk).
extract_entities_and_relationships(text, is_empty, openai_outcome, groq_outcome) ==
    IF is_empty \/ strip(text) = <<>>
    THEN [extraction |-> EmptyExtraction, llm |-> NoLlm]
    ELSE
      LET cc == bot3_chat_completion(openai_key, groq_key,
                                     openai_outcome, groq_outcome)
          log == [called |-> cc.called, attempts |-> cc.attempts,
                  raised |-> cc.raised]
      IN  IF cc.raised
          THEN [extraction |-> EmptyExtraction, llm |-> log]
          ELSE
            LET content == Contents[cc.response]
            IN  IF ~content.json \/ content.value.t # "object"
                THEN [extraction |-> EmptyExtraction, llm |-> log]
                ELSE [extraction |->
                        [entities |->
                            take(safe_list(dict_get(content.value, "entities", JNull)),
                                 MAX_ENTITIES_PER_CHUNK),
                         relationships |->
                            take(safe_list(dict_get(content.value, "relationships", JNull)),
                                 MAX_RELATIONSHIPS_PER_CHUNK)],
                      llm |-> log]

\* normalize_name(x) for a JSON value x: "" for a falsy one, AttributeError
\* for a truthy one that is no string.
normalize_json_name(x) ==
    IF ~truthy(x) THEN [raised |-> FALSE, name |-> <<>>]
    ELSE IF x.t # "str" THEN [raised |-> TRUE, name |-> <<>>]
    ELSE [raised |-> FALSE, name |-> normalize_name(x.v)]

\* One pass of the entity loop of persist_extraction.  acc holds the store,
\* the two counters and whether an exception has escaped.
persist_entity(acc, e, section_id, doc_id) ==
    IF acc.raised THEN acc
    ELSE IF e.t # "object" THEN [acc EXCEPT !.raised = TRUE]
    ELSE
      LET nm == normalize_json_name(dict_get(e, "name", JNull))
          given == dict_get(e, "salience", JStr("SUPPORTING"))
          salience == IF given.t = "str" /\ given.v \in {"CORE", "IMPORTANT", "SUPPORTING"}
                      THEN given.v ELSE "SUPPORTING"
          g1 == create_entity(acc.g, nm.name,
                              dict_get(e, "type", JStr("OTHER")).v,
                              dict_get(e, "description", JStr(<<>>)).v,
                              salience, DEFAULT_DOC_ID)
          g2 == link_entity_to_section(g1, nm.name, section_id, doc_id)
      IN  IF nm.raised THEN [acc EXCEPT !.raised = TRUE]
          ELSE IF nm.name = <<>> THEN acc
          ELSE IF given.t \in {"list", "object"} THEN [acc EXCEPT !.raised = TRUE]
          ELSE [acc EXCEPT !.g = g2, !.entities = @ + 1]

\* One pass of the relationship loop of persist_extraction.  merged counts
\* the entries whose statement merged an edge.
persist_relationship(acc, r, doc_id) ==
    IF acc.raised THEN acc
    ELSE IF r.t # "object" THEN [acc EXCEPT !.raised = TRUE]
    ELSE
      LET ty == dict_get(r, "type", JStr(""))
      IN  IF ty.t # "str" THEN [acc EXCEPT !.raised = TRUE]
          ELSE IF upper(ty.v) \notin ALLOWED_REL_TYPES THEN acc
          ELSE
            LET src == normalize_json_name(dict_get(r, "source", JNull))
                tgt == normalize_json_name(dict_get(r, "target", JNull))
            IN  IF src.raised \/ tgt.raised THEN [acc EXCEPT !.raised = TRUE]
                ELSE IF src.name = <<>> \/ tgt.name = <<>> \/ src.name = tgt.name
                THEN acc
                ELSE [acc EXCEPT
                        !.g = create_relationship(
                                acc.g, src.name, tgt.name, upper(ty.v),
                                dict_get(r, "description", JStr(<<>>)).v,
                                DEFAULT_DOC_ID),
                        !.relationships =
                            IF create_relationship_result(upper(ty.v))
                            THEN @ + 1 ELSE @,
                        !.merged =
                            IF merges_edge(acc.g, src.name, tgt.name,
                                           upper(ty.v), DEFAULT_DOC_ID)
                            THEN @ + 1 ELSE @]

\* persist_extraction: the section node, then the entities, then the
\* relationships.  create_entity and create_relationship are called without
\* doc_id, so they write under the client's default document.
persist_extraction(g, extraction, section_id, doc_id) ==
    LET es == extraction.entities
        rs == extraction.relationships
        start == [g |-> create_section(g, section_id, section_id, 1, doc_id),
                  entities |-> 0, relationships |-> 0, merged |-> 0,
                  raised |-> FALSE]
        after_entities[i \in 0..Len(es)] ==
            IF i = 0 THEN start
            ELSE persist_entity(after_entities[i - 1], es[i], section_id, doc_id)
        after_relationships[i \in 0..Len(rs)] ==
            IF i = 0 THEN after_entities[Len(es)]
            ELSE persist_relationship(after_relationships[i - 1], rs[i], doc_id)
    IN  after_relationships[Len(rs)]

(***************************************************************************)
(* The financial-fact stage (bot8_financial_facts).                        *)
(***************************************************************************)
Lowers ==
    <<"a", "b", "c", "d", "e", "f", "g", "h", "i", "j", "k", "l", "m",
      "n", "o", "p", "q", "r", "s", "t", "u", "v", "w", "x", "y", "z">>

Uppers ==
    <<"A", "B", "C", "D", "E", "F", "G", "H", "I", "J", "K", "L", "M",
      "N", "O", "P", "Q", "R", "S", "T", "U", "V", "W", "X", "Y", "Z">>

Digits == <<"0", "1", "2", "3", "4", "5", "6", "7", "8", "9">>

\* str.upper and str.lower, character by character
to_upper == [c \in {Lowers[k] : k \in DOMAIN Lowers} |->
                Uppers[CHOOSE k \in DOMAIN Lowers : Lowers[k] = c]]

to_lower == [c \in {Uppers[k] : k \in DOMAIN Uppers} |->
                Lowers[CHOOSE k \in DOMAIN Uppers : Uppers[k] = c]]

str_upper(s) ==
    [i \in 1..Len(s) |->
        IF s[i] \in DOMAIN to_upper THEN to_upper[s[i]] ELSE s[i]]

str_lower(s) ==
    [i \in 1..Len(s) |->
        IF s[i] \in DOMAIN to_lower THEN to_lower[s[i]] ELSE s[i]]

\* body applied to value, with value evaluated once
bind(value, body(_)) == CHOOSE r \in {body(v) : v \in {value}} : TRUE

\* The items of s at the indices in idx, in order
keep(s, idx) ==
    bind(idx, LAMBDA kept :
        bind(s, LAMBDA items :
            [n \in 1..Cardinality(kept) |->
                items[CHOOSE i \in kept :
                          Cardinality({j \in kept : j <= i}) = n]]))

\* Python's "k in s" on strings
contains(s, k) ==
    \E i \in 1..(Len(s) - Len(k) + 1) : SubSeq(s, i, i + Len(k) - 1) = k

DigitChars == {Digits[k] : k \in DOMAIN Digits}

isdigit(s) ==
    /\ s # <<>>
    /\ \A i \in 1..Len(s) : s[i] \in DigitChars

\* CANONICAL_METRICS, in the dict's insertion order
CANONICAL_METRICS ==
    << <<<<"a", "s", "s", "e", "t">>, <<"A", "s", "s", "e", "t", "s">>>>,
       <<<<"l", "i", "a", "b", "i", "l", "i", "t">>, <<"L", "i", "a", "b", "i", "l", "i", "t", "i", "e", "s">>>>,
       <<<<"e", "q", "u", "i", "t", "y">>, <<"E", "q", "u", "i", "t", "y">>>>,
       <<<<"r", "e", "v", "e", "n", "u", "e">>, <<"R", "e", "v", "e", "n", "u", "e">>>>,
       <<<<"p", "r", "o", "f", "i", "t">>, <<"P", "r", "o", "f", "i", "t">>>>,
       <<<<"l", "o", "s", "s">>, <<"P", "r", "o", "f", "i", "t">>>>,
       <<<<"c", "a", "s", "h">>, <<"C", "a", "s", "h", "F", "l", "o", "w">>>> >>

Other == <<"O", "t", "h", "e", "r">>

classify_metric(label) ==
    LET label_l == str_lower(label)
        hits == {i \in DOMAIN CANONICAL_METRICS :
                    contains(label_l, CANONICAL_METRICS[i][1])}
    IN  IF hits = {} THEN Other
        ELSE CANONICAL_METRICS[CHOOSE i \in hits : \A j \in hits : i <= j][2]

\* parse_column: ok is false where the code returns (None, None)
parse_column(col) ==
    LET seps == {i \in 1..Len(col) : col[i] = "_"}
        k == CHOOSE i \in seps : \A j \in seps : i <= j
        scope == SubSeq(col, 1, k - 1)
        year == SubSeq(col, k + 1, Len(col))
    IN  IF seps = {} THEN [ok |-> FALSE]
        ELSE IF ~isdigit(year) THEN [ok |-> FALSE]
        ELSE IF str_upper(scope) \notin {<<"G", "R", "O", "U", "P">>, <<"C", "O", "M", "P", "A", "N", "Y">>}
        THEN [ok |-> FALSE]
        ELSE [ok |-> TRUE, scope |-> str_upper(scope), year |-> year]

\* A whole number in a JSON cell
JInt(n) == [t |-> "num", v |-> n]

\* The value of a string of decimal digits
digits_value(s) ==
    LET val[i \in 0..Len(s)] ==
            IF i = 0 THEN 0
            ELSE 10 * val[i - 1]
                 + (CHOOSE d \in DOMAIN Digits : Digits[d] = s[i]) - 1
    IN  val[Len(s)]

\* normalize_number: ok is false where the code returns None.  The cells
\* of the model hold null, whole numbers, and strings of digits, commas,
\* "-" and letters; float() is modelled on those.
normalize_number(value) ==
    IF value.t = "null" THEN [ok |-> FALSE]
    ELSE IF value.t = "num" THEN [ok |-> TRUE, v |-> value.v]
    ELSE IF value.v = <<>> \/ value.v = <<"-">> THEN [ok |-> FALSE]
    ELSE
      LET kept == {i \in 1..Len(value.v) : value.v[i] # ","}
          nth(n) == CHOOSE i \in kept :
                        Cardinality({j \in kept : j <= i}) = n
          plain == [n \in 1..Cardinality(kept) |-> value.v[nth(n)]]
          negative == plain # <<>> /\ plain[1] = "-"
          body == IF negative THEN Tail(plain) ELSE plain
      IN  IF isdigit(body)
          THEN [ok |-> TRUE,
                v |-> IF negative THEN 0 - digits_value(body)
                      ELSE digits_value(body)]
          ELSE [ok |-> FALSE]

infer_scale(currency) ==
    IF currency = <<>> THEN "UNIT"
    ELSE IF contains(str_lower(currency), <<"0", "0", "0">>) THEN "THOUSANDS"
    ELSE IF contains(str_lower(currency), <<"m", "i", "l", "l", "i", "o", "n">>) THEN "MILLIONS"
    ELSE IF contains(str_lower(currency), <<"b", "i", "l", "l", "i", "o", "n">>) THEN "BILLIONS"
    ELSE "UNIT"

\* Neo4jClient.create_financial_fact: MERGE on (doc_id, metric, value,
\* period_value), then SET the other properties (created_at is left out).
create_financial_fact(g, metric, value, unit, scale, period_type, period_value, confidence, doc_id) ==
    LET key(f) == /\ f.doc_id = doc_id /\ f.metric = metric
                  /\ f.value = value /\ f.period_value = period_value
        set(f) == IF key(f)
                  THEN [f EXCEPT !.unit = unit, !.scale = scale,
                                 !.period_type = period_type,
                                 !.confidence = confidence]
                  ELSE f
    IN  [g EXCEPT !.facts =
            IF \E f \in BagToSet(g.facts) : key(f)
            THEN BagOfAll(set, g.facts)
            ELSE g.facts (+) SetToBag({
                    [doc_id |-> doc_id, metric |-> metric, value |-> value,
                     period_value |-> period_value, unit |-> unit,
                     scale |-> scale, period_type |-> period_type,
                     confidence |-> confidence]})]

\* Neo4jClient.link_section_to_financial_fact: MATCH the section and the
\* fact of these keys in the document, MERGE the STATES edge.  No stage
\* calls it.
link_section_to_financial_fact(g, section_id, metric, value, period_value, doc_id) ==
    IF /\ \E x \in BagToSet(g.sections) :
            x.doc_id = doc_id /\ x.section_id = section_id
       /\ \E f \in BagToSet(g.facts) :
            /\ f.doc_id = doc_id /\ f.metric = metric
            /\ f.value = value /\ f.period_value = period_value
    THEN [g EXCEPT !.states =
            @ \cup {[doc_id |-> doc_id, section_id |-> section_id,
                     metric |-> metric, value |-> value,
                     period_value |-> period_value]}]
    ELSE g

\* Neo4jClient.link_financial_fact_to_entity: MATCH the fact and the
\* entity in the document, MERGE the MEASURES edge.  No stage calls it.
link_financial_fact_to_entity(g, metric, value, period_value, entity_name, doc_id) ==
    IF /\ \E f \in BagToSet(g.facts) :
            /\ f.doc_id = doc_id /\ f.metric = metric
            /\ f.value = value /\ f.period_value = period_value
       /\ MatchEntity(g, doc_id, entity_name) # {}
    THEN [g EXCEPT !.measures =
            @ \cup {[doc_id |-> doc_id, metric |-> metric, value |-> value,
                     period_value |-> period_value, name |-> entity_name]}]
    ELSE g

\* row.get(key): a row is its "item" and its other cells as <<key, value>>
row_get(row, key) ==
    IF \E i \in DOMAIN row.cells : row.cells[i][1] = key
    THEN row.cells[CHOOSE i \in DOMAIN row.cells : row.cells[i][1] = key][2]
    ELSE JNull

\* The col_meta dict of extract_facts_from_tables, in insertion order
col_meta(columns) ==
    LET meta[i \in 0..Len(columns)] ==
          IF i = 0 THEN <<>>
          ELSE
            LET p == parse_column(columns[i])
                col_key == str_lower(columns[i])
                prev == meta[i - 1]
            IN  IF ~p.ok THEN prev
                ELSE IF \E j \in DOMAIN prev : prev[j].col_key = col_key
                THEN [j \in DOMAIN prev |->
                        IF prev[j].col_key = col_key
                        THEN [col_key |-> col_key, scope |-> p.scope,
                              year |-> p.year]
                        ELSE prev[j]]
                ELSE Append(prev, [col_key |-> col_key, scope |-> p.scope,
                                   year |-> p.year])
    IN  meta[Len(columns)]

\* The body of "for row in rows" in extract_facts_from_tables
facts_of_row(acc, row, meta, currency, section_id, doc_id) ==
    LET label == row.item
        base_metric == classify_metric(label.v)
        g1 == create_entity(acc.g, base_metric, "FINANCIAL",
                            <<"F", "i", "n", "a", "n", "c", "i", "a", "l", " ", "m", "e", "t", "r", "i", "c", ":", " ">> \o base_metric,
                            "CORE", DEFAULT_DOC_ID)
        g2 == link_entity_to_section(g1, base_metric, section_id, doc_id)
        after[i \in 0..Len(meta)] ==
            IF i = 0 THEN [g |-> g2, created |-> acc.created]
            ELSE
              LET value == normalize_number(row_get(row, meta[i].col_key))
              IN  IF ~value.ok THEN after[i - 1]
                  ELSE [g |-> create_financial_fact(
                                  after[i - 1].g, base_metric, value.v,
                                  currency, infer_scale(currency), "YEAR",
                                  meta[i].year, "HIGH", doc_id),
                        created |-> after[i - 1].created + 1]
    IN  IF label.t = "null" \/ label.v = <<>> THEN acc
        ELSE IF base_metric = Other THEN acc
        ELSE after[Len(meta)]

\* The body of "for table in tables" in extract_facts_from_tables
facts_of_table(acc, table, section_id, doc_id) ==
    LET meta == col_meta(table.columns)
        after[i \in 0..Len(table.rows)] ==
            IF i = 0 THEN acc
            ELSE facts_of_row(after[i - 1], table.rows[i], meta,
                              table.currency, section_id, doc_id)
    IN  IF table.type # "financial_statement" THEN acc
        ELSE IF meta = <<>> THEN acc
        ELSE after[Len(table.rows)]

\* extract_facts_from_tables: the store afterwards and the count returned
extract_facts_from_tables(g, section, doc_id) ==
    LET after[i \in 0..Len(section.tables)] ==
            IF i = 0 THEN [g |-> g, created |-> 0]
            ELSE facts_of_table(after[i - 1], section.tables[i],
                                section.section_id, doc_id)
    IN  after[Len(section.tables)]

(***************************************************************************)
(* Regular expressions, as re.finditer applies them: a pattern is a        *)
(* sequence of elements, matched left to right with backtracking; the      *)
(* result of a match attempt is <<>> or the one match that the             *)
(* backtracking order finds first.                                         *)
(***************************************************************************)
WordB == [k |-> "b"]                                    \* \b

Lit(s) == [k |-> "lit", s |-> s]                        \* literal text

WsOpt == [k |-> "ws", min |-> 0, many |-> FALSE]        \* \s?

WsPlus == [k |-> "ws", min |-> 1, many |-> TRUE]        \* \s+

WsStar == [k |-> "ws", min |-> 0, many |-> TRUE]        \* \s*

Dig(n) == [k |-> "dig", n |-> n]                        \* \d{n}

Cls(set) == [k |-> "cls", set |-> set]                  \* [...]

Open == [k |-> "("]

Close == [k |-> ")"]

Alt(alts) == [k |-> "alt", alts |-> alts]               \* (?:a|b), a first

Opt(pattern) == Alt(<<pattern, <<>>>>)                  \* (?:a)?

Group(pattern) == <<Open>> \o pattern \o <<Close>>      \* (a)

Star(pattern) == [k |-> "star", p |-> pattern]          \* (?:a)*, greedy

Plus(pattern) == pattern \o <<Star(pattern)>>           \* (?:a)+, greedy

\* \w
WordChars ==
    DOMAIN to_upper \cup DOMAIN to_lower
    \cup DigitChars \cup {"_"}

IsWordChar(c) == c \in WordChars

at_word_boundary(text, pos) ==
    LET before == pos > 1 /\ IsWordChar(text[pos - 1])
        after == pos <= Len(text) /\ IsWordChar(text[pos])
    IN  before # after

\* One step of the matcher: c is a configuration (the pattern left to
\* match, the position of the next character to read, the start of the
\* open group, the groups captured so far); the result is the
\* configurations to try next, the preferred one first.
re_step(text, config, ignorecase) ==
  bind(config, LAMBDA c :
    LET h == Head(c.pattern)
        rest == Tail(c.pattern)
        to(pos) == <<[pattern |-> rest, pos |-> pos, open |-> c.open,
                      caps |-> c.caps]>>
    IN  CASE h.k = "b" ->
                IF at_word_boundary(text, c.pos) THEN to(c.pos) ELSE <<>>
          [] h.k = "lit" ->
                LET last == c.pos + Len(h.s) - 1
                IN  IF /\ last <= Len(text)
                       /\ IF ignorecase
                          THEN str_lower(SubSeq(text, c.pos, last))
                               = str_lower(h.s)
                          ELSE SubSeq(text, c.pos, last) = h.s
                    THEN to(last + 1) ELSE <<>>
          [] h.k = "ws" ->
                LET run == CHOOSE n \in 0..(Len(text) - c.pos + 1) :
                              /\ \A j \in c.pos..(c.pos + n - 1) :
                                    IsSpace(text[j])
                              /\ \/ c.pos + n > Len(text)
                                 \/ ~IsSpace(text[c.pos + n])
                    top == IF h.many \/ run = 0 THEN run ELSE 1
                IN  IF top < h.min THEN <<>>
                    ELSE [n \in 1..(top - h.min + 1) |->
                            [pattern |-> rest, pos |-> c.pos + top - n + 1,
                             open |-> c.open, caps |-> c.caps]]
          [] h.k = "dig" ->
                IF /\ c.pos + h.n - 1 <= Len(text)
                   /\ isdigit(SubSeq(text, c.pos, c.pos + h.n - 1))
                THEN to(c.pos + h.n) ELSE <<>>
          [] h.k = "cls" ->
                IF /\ c.pos <= Len(text)
                   /\ \/ text[c.pos] \in h.set
                      \/ /\ ignorecase
                         /\ \/ str_upper(<<text[c.pos]>>)[1] \in h.set
                            \/ str_lower(<<text[c.pos]>>)[1] \in h.set
                THEN to(c.pos + 1) ELSE <<>>
          [] h.k = "star" ->
                <<[pattern |-> h.p \o <<h>> \o rest, pos |-> c.pos,
                   open |-> c.open, caps |-> c.caps],
                  [pattern |-> rest, pos |-> c.pos, open |-> c.open,
                   caps |-> c.caps]>>
          [] h.k = "(" ->
                <<[pattern |-> rest, pos |-> c.pos, open |-> c.pos,
                   caps |-> c.caps]>>
          [] h.k = ")" ->
                <<[pattern |-> rest, pos |-> c.pos, open |-> c.open,
                   caps |-> Append(c.caps, SubSeq(text, c.open, c.pos - 1))]>>
          [] h.k = "alt" ->
                [a \in 1..Len(h.alts) |->
                    [pattern |-> h.alts[a] \o rest, pos |-> c.pos,
                     open |-> c.open, caps |-> c.caps]])

RECURSIVE re_search(_, _, _)
\* The backtracking search: todo is the stack of configurations still to
\* try; the first one that exhausts its pattern is the match.
re_search(text, todo, ignorecase) ==
    bind(todo, LAMBDA stack :
        IF Len(stack) = 0 THEN <<>>
        ELSE IF Len(Head(stack).pattern) = 0
        THEN <<[end |-> Head(stack).pos, caps |-> Head(stack).caps]>>
        ELSE re_search(text,
                       re_step(text, Head(stack), ignorecase) \o Tail(stack),
                       ignorecase))

\* The match of pattern that starts at position start of text, or <<>>
re_match(text, pattern, start, ignorecase) ==
    re_search(text,
              <<[pattern |-> pattern, pos |-> start, open |-> start,
                 caps |-> <<>>]>>,
              ignorecase)

RECURSIVE finditer_from(_, _, _, _)
\* re.finditer: the non-overlapping matches, leftmost first.  The next
\* match is the one at the first position from start where the pattern
\* matches; after an empty match the scan moves on by one character.
finditer_from(text, pattern, start, ignorecase) ==
    bind({s \in start..(Len(text) + 1) :
             Len(re_match(text, pattern, s, ignorecase)) > 0},
         LAMBDA starts :
            IF starts = {} THEN <<>>
            ELSE bind(CHOOSE s \in starts : \A t \in starts : s <= t,
                      LAMBDA first :
                 bind(re_match(text, pattern, first, ignorecase), LAMBDA r :
                    <<[start |-> first, end |-> r[1].end, caps |-> r[1].caps]>>
                    \o finditer_from(text, pattern,
                                     IF r[1].end > first THEN r[1].end
                                     ELSE first + 1,
                                     ignorecase))))

finditer(text, pattern, ignorecase) == finditer_from(text, pattern, 1, ignorecase)

(***************************************************************************)
(* The time-period stage (bot6_timeperiod_extractor).                      *)
(***************************************************************************)
Quarters == {"1", "2", "3", "4"}

Halves == {"1", "2"}

\* TIME_PATTERNS: the pattern and the period type; the label function of
\* entry n is label_fn(n, groups).
TIME_PATTERNS ==
    <<[pattern |-> <<WordB, Lit(<<"f", "y">>), WsOpt>> \o Group(<<Dig(4)>>) \o <<WordB>>,
       ptype |-> "ANNUAL"],
      [pattern |-> <<WordB, Lit(<<"f", "i", "s", "c", "a", "l">>), WsPlus, Lit(<<"y", "e", "a", "r">>), WsPlus>>
                   \o Group(<<Dig(4)>>) \o <<WordB>>,
       ptype |-> "ANNUAL"],
      [pattern |-> <<WordB, Lit(<<"f", "y">>), WsOpt>> \o Group(<<Dig(2)>>) \o <<WordB>>,
       ptype |-> "ANNUAL"],
      [pattern |-> <<WordB, Lit(<<"q">>)>> \o Group(<<Cls(Quarters)>>)
                   \o <<WsOpt, Lit(<<"f", "y">>), WsOpt>> \o Group(<<Dig(4)>>)
                   \o <<WordB>>,
       ptype |-> "QUARTER"],
      [pattern |-> <<WordB, Lit(<<"q">>)>> \o Group(<<Cls(Quarters)>>)
                   \o <<WsPlus>> \o Group(<<Dig(4)>>) \o <<WordB>>,
       ptype |-> "QUARTER"],
      [pattern |-> <<WordB, Lit(<<"q", "u", "a", "r", "t", "e", "r">>), WsPlus>> \o Group(<<Cls(Quarters)>>)
                   \o <<WsPlus, Opt(<<Lit(<<"o", "f">>), WsPlus>>),
                        Alt(<< <<Lit(<<"f", "y">>)>>,
                               <<Lit(<<"f", "i", "s", "c", "a", "l">>), WsPlus, Lit(<<"y", "e", "a", "r">>)>>,
                               <<>> >>),
                        WsStar>>
                   \o Group(<<Dig(4)>>) \o <<WordB>>,
       ptype |-> "QUARTER"],
      [pattern |-> <<WordB, Lit(<<"h">>)>> \o Group(<<Cls(Halves)>>)
                   \o <<WsOpt, Lit(<<"f", "y">>), WsOpt>> \o Group(<<Dig(4)>>)
                   \o <<WordB>>,
       ptype |-> "HALF"]>>

label_fn(n, groups) ==
    CASE n \in {1, 2} -> <<"F", "Y">> \o groups[1]
      [] n = 3 -> IF digits_value(groups[1]) < 50
                  THEN <<"F", "Y", "2", "0">> \o groups[1] ELSE <<"F", "Y", "1", "9">> \o groups[1]
      [] n = 4 -> <<"Q">> \o groups[1] \o <<"F", "Y">> \o groups[2]
      [] n = 5 -> <<"Q">> \o groups[1] \o <<"C", "Y">> \o groups[2]
      [] n = 6 -> <<"Q">> \o groups[1] \o <<"F", "Y">> \o groups[2]
      [] n = 7 -> <<"H">> \o groups[1] \o <<"F", "Y">> \o groups[2]

\* \b(19\d{2}|20\d{2})\b
YEAR_PATTERN ==
    <<WordB>>
    \o Group(<<Alt(<< <<Lit(<<"1", "9">>), Dig(2)>>, <<Lit(<<"2", "0">>), Dig(2)>> >>)>>)
    \o <<WordB>>

CALENDAR_CONTEXT ==
    {<<"y", "e", "a", "r">>, <<"f", "y">>, <<"f", "i", "s", "c", "a", "l">>,
     <<"q", "u", "a", "r", "t", "e", "r">>, <<"r", "e", "s", "u", "l", "t", "s">>,
     <<"r", "e", "v", "e", "n", "u", "e">>, <<"i", "n", "c", "o", "m", "e">>}

type_order(period_type) ==
    CASE period_type = "ANNUAL" -> 0
      [] period_type = "HALF" -> 1
      [] period_type = "QUARTER" -> 2
      [] period_type = "CALENDAR" -> 3
      [] OTHER -> 99

\* extract_timeperiods keeping the years outside 1990..2050.
extract_timeperiods_without_range_check(text) ==
    LET in_range(year) == TRUE
        last_group(m) == digits_value(m.caps[Len(m.caps)])
        from_pattern(n) ==
            bind(finditer(text, TIME_PATTERNS[n].pattern, TRUE), LAMBDA hits :
              bind(keep(hits, {i \in 1..Len(hits) :
                                  in_range(last_group(hits[i]))}),
                   LAMBDA found :
                [i \in 1..Len(found) |->
                    [label |-> label_fn(n, found[i].caps),
                     year |-> last_group(found[i]),
                     period_type |-> TIME_PATTERNS[n].ptype]]))
        by_pattern[n \in 0..Len(TIME_PATTERNS)] ==
            IF n = 0 THEN <<>> ELSE by_pattern[n - 1] \o from_pattern(n)
        window(m) ==
            str_lower(SubSeq(text,
                             IF m.start - 30 < 1 THEN 1 ELSE m.start - 30,
                             IF m.end - 1 + 30 > Len(text) THEN Len(text)
                             ELSE m.end - 1 + 30))
        in_context(m) ==
            /\ in_range(digits_value(m.caps[1]))
            /\ bind(window(m), LAMBDA w :
                    \E k \in CALENDAR_CONTEXT : contains(w, k))
        calendar ==
            bind(finditer(text, YEAR_PATTERN, FALSE), LAMBDA years :
              bind(keep(years, {i \in 1..Len(years) : in_context(years[i])}),
                   LAMBDA kept :
                [i \in 1..Len(kept) |->
                    [label |-> <<"C", "Y">> \o kept[i].caps[1],
                     year |-> digits_value(kept[i].caps[1]),
                     period_type |-> "CALENDAR"]]))
        before(periods, j, i) ==
            \/ periods[j].year < periods[i].year
            \/ /\ periods[j].year = periods[i].year
               /\ \/ type_order(periods[j].period_type)
                        < type_order(periods[i].period_type)
                  \/ /\ type_order(periods[j].period_type)
                          = type_order(periods[i].period_type)
                     /\ j < i
    IN  bind(by_pattern[Len(TIME_PATTERNS)] \o calendar, LAMBDA periods :
          bind({i \in 1..Len(periods) :
                  \A j \in 1..(i - 1) : periods[j].label # periods[i].label},
               LAMBDA unique :
            [r \in 1..Cardinality(unique) |->
                periods[CHOOSE i \in unique :
                            Cardinality({j \in unique : before(periods, j, i)})
                            + 1 = r]]))

extract_timeperiods(text) ==
    LET in_range(year) == ~(year < 1990 \/ year > 2050)
        last_group(m) == digits_value(m.caps[Len(m.caps)])
        from_pattern(n) ==
            bind(finditer(text, TIME_PATTERNS[n].pattern, TRUE), LAMBDA hits :
              bind(keep(hits, {i \in 1..Len(hits) :
                                  in_range(last_group(hits[i]))}),
                   LAMBDA found :
                [i \in 1..Len(found) |->
                    [label |-> label_fn(n, found[i].caps),
                     year |-> last_group(found[i]),
                     period_type |-> TIME_PATTERNS[n].ptype]]))
        by_pattern[n \in 0..Len(TIME_PATTERNS)] ==
            IF n = 0 THEN <<>> ELSE by_pattern[n - 1] \o from_pattern(n)
        window(m) ==
            str_lower(SubSeq(text,
                             IF m.start - 30 < 1 THEN 1 ELSE m.start - 30,
                             IF m.end - 1 + 30 > Len(text) THEN Len(text)
                             ELSE m.end - 1 + 30))
        in_context(m) ==
            /\ in_range(digits_value(m.caps[1]))
            /\ bind(window(m), LAMBDA w :
                    \E k \in CALENDAR_CONTEXT : contains(w, k))
        calendar ==
            bind(finditer(text, YEAR_PATTERN, FALSE), LAMBDA years :
              bind(keep(years, {i \in 1..Len(years) : in_context(years[i])}),
                   LAMBDA kept :
                [i \in 1..Len(kept) |->
                    [label |-> <<"C", "Y">> \o kept[i].caps[1],
                     year |-> digits_value(kept[i].caps[1]),
                     period_type |-> "CALENDAR"]]))
        before(periods, j, i) ==
            \/ periods[j].year < periods[i].year
            \/ /\ periods[j].year = periods[i].year
               /\ \/ type_order(periods[j].period_type)
                        < type_order(periods[i].period_type)
                  \/ /\ type_order(periods[j].period_type)
                          = type_order(periods[i].period_type)
                     /\ j < i
    IN  bind(by_pattern[Len(TIME_PATTERNS)] \o calendar, LAMBDA periods :
          bind({i \in 1..Len(periods) :
                  \A j \in 1..(i - 1) : periods[j].label # periods[i].label},
               LAMBDA unique :
            [r \in 1..Cardinality(unique) |->
                periods[CHOOSE i \in unique :
                            Cardinality({j \in unique : before(periods, j, i)})
                            + 1 = r]]))

\* An absent node property
Absent == "absent"

\* create_timeperiod with the year and the type in the MERGE pattern: a
\* label written with another year creates a second node.
create_timeperiod_keyed_by_year(g, label, year, period_type) ==
    IF \E t \in BagToSet(g.timeperiods) :
          t.label = label /\ t.year = year /\ t.period_type = period_type
    THEN g
    ELSE [g EXCEPT !.timeperiods =
            @ (+) SetToBag({[label |-> label, year |-> year,
                             period_type |-> period_type, scope |-> Absent]})]

\* Neo4jClient.create_timeperiod: MERGE on the label, then SET
create_timeperiod(g, label, year, period_type) ==
    LET set(t) == IF t.label = label
                  THEN [t EXCEPT !.year = year, !.period_type = period_type]
                  ELSE t
    IN  [g EXCEPT !.timeperiods =
            IF \E t \in BagToSet(g.timeperiods) : t.label = label
            THEN BagOfAll(set, g.timeperiods)
            ELSE g.timeperiods
                 (+) SetToBag({[label |-> label, year |-> year,
                                period_type |-> period_type,
                                scope |-> Absent]})]

\* The body of "for p in periods" in persist_timeperiods
persist_period(acc, p, section_id, doc_id) ==
    LET merged ==
            IF \E t \in BagToSet(acc.g.timeperiods) : t.label = p.label
            THEN acc.g
            ELSE [acc.g EXCEPT !.timeperiods =
                    @ (+) SetToBag({[label |-> p.label, year |-> p.year,
                                     period_type |-> p.period_type,
                                     scope |-> "global"]})]
        link == \E x \in BagToSet(merged.sections) :
                    x.doc_id = doc_id /\ x.section_id = section_id
    IN  [g |-> IF link
               THEN [merged EXCEPT !.applies_to =
                        @ \cup {[doc_id |-> doc_id, section_id |-> section_id,
                                 label |-> p.label]}]
               ELSE merged,
         periods_created |-> acc.periods_created + 1,
         section_links |-> acc.section_links + (IF link THEN 1 ELSE 0)]

\* persist_timeperiods: the store afterwards and the counts returned
persist_timeperiods(g, sections, doc_id) ==
    LET of_section(acc, section) ==
            IF section.text = <<>> THEN acc
            ELSE bind(extract_timeperiods(section.text), LAMBDA periods :
                   LET after[i \in 0..Len(periods)] ==
                         IF i = 0 THEN acc
                         ELSE persist_period(after[i - 1], periods[i],
                                             section.section_id, doc_id)
                   IN  after[Len(periods)])
        after_sections[i \in 0..Len(sections)] ==
            IF i = 0
            THEN [g |-> g, periods_created |-> 0, section_links |-> 0]
            ELSE of_section(after_sections[i - 1], sections[i])
    IN  after_sections[Len(sections)]

(***************************************************************************)
(* The financial normalizer (bot5_financial_normalizer).                   *)
(***************************************************************************)
\* load_financial_concepts: the registry read from
\* config/financial_concepts.json, an input of the program; this one has a
\* concept with a category and three aliases and one without a category.
load_financial_concepts ==
    <<[name |-> <<"R", "e", "v", "e", "n", "u", "e">>,
       meta |-> [category |-> "INCOME",
                 aliases |-> <<<<"r", "e", "v", "e", "n", "u", "e">>, <<"N", "e", "t", " ", "S", "a", "l", "e", "s">>, <<"T", "u", "r", "n", "o", "v", "e", "r">>>>]],
      [name |-> <<"E", "B", "I", "T", "D", "A">>,
       meta |-> [aliases |-> <<<<"e", "b", "i", "t", "d", "a">>>>]]>>

\* _normalize_key
normalize_key(text) ==
    LET kept(c) == c \in DOMAIN to_upper \/ c \in DigitChars \/ IsSpace(c)
    IN  bind(strip(str_lower(text)), LAMBDA stripped :
          bind(keep(stripped, {i \in 1..Len(stripped) : kept(stripped[i])}),
               LAMBDA plain :
            bind(keep(plain, {i \in 1..Len(plain) :
                                \/ ~IsSpace(plain[i])
                                \/ i = 1
                                \/ ~IsSpace(plain[i - 1])}),
                 LAMBDA firsts :
              [n \in 1..Len(firsts) |->
                  IF IsSpace(firsts[n]) THEN " " ELSE firsts[n]])))

\* The alias_map dict of normalize_financial_entities, as the pairs of a
\* normalized alias and the index of its concept, in the order the loops
\* assign them
alias_map(concepts) ==
    LET pairs_of(c) ==
            [a \in 1..Len(concepts[c].meta.aliases) |->
                <<normalize_key(concepts[c].meta.aliases[a]), c>>]
        upto[c \in 0..Len(concepts)] ==
            IF c = 0 THEN <<>> ELSE upto[c - 1] \o pairs_of(c)
    IN  upto[Len(concepts)]

\* alias_map.get(key): the concept the last assignment to key stored
alias_map_get(pairs, key) ==
    bind({i \in 1..Len(pairs) : pairs[i][1] = key}, LAMBDA hits :
        IF hits = {} THEN 0
        ELSE pairs[CHOOSE i \in hits : \A j \in hits : j <= i][2])

\* normalize_financial_entities: the store afterwards and the counts
\* returned.  The entities of the document are read in the order the
\* store returns them; the MERGEs commute, so the writes are given per
\* entity.
normalize_financial_entities(g, doc_id) ==
    bind(load_financial_concepts, LAMBDA concepts :
      bind(alias_map(concepts), LAMBDA pairs :
        bind([e \in {x \in BagToSet(g.entities) : x.doc_id = doc_id} |->
                 alias_map_get(pairs, normalize_key(e.name))],
             LAMBDA canonical :
          LET hits == {e \in DOMAIN canonical :
                          /\ canonical[e] # 0
                          /\ concepts[canonical[e]].name # <<>>}
              category(c) == IF "category" \in DOMAIN concepts[c].meta
                             THEN concepts[c].meta.category ELSE "OTHER"
              created == {c \in {canonical[e] : e \in hits} :
                            ~\E fc \in BagToSet(g.concepts) :
                                  fc.name = concepts[c].name}
              records == BagCardinality([e \in hits |->
                                            CopiesIn(e, g.entities)])
          IN  [g |-> [g EXCEPT
                        !.concepts =
                            @ (+) SetToBag({
                                [name |-> concepts[c].name,
                                 category |-> category(c),
                                 source |-> "financial_concepts.json"] :
                                c \in created}),
                        !.normalized_to =
                            @ \cup {[doc_id |-> doc_id, name |-> e.name,
                                     concept |-> concepts[canonical[e]].name] :
                                    e \in hits}],
               concepts_created |-> records,
               entity_links |-> records])))

(***************************************************************************)
(* Actions of the persistence client.                                      *)
(***************************************************************************)
CreateEntity(keys, types, descriptions, saliences) ==
    \E key \in keys, entity_type \in types,
       description \in descriptions, salience \in saliences :
        LET doc_id == key[1]
            name   == key[2]
            g2 == create_entity(graph, name, entity_type, description,
                                salience, doc_id)
        IN  /\ graph' = g2
            /\ call' = [op |-> "create_entity", doc_id |-> doc_id,
                        name |-> name, type |-> entity_type,
                        description |-> description, salience |-> salience,
                        matched |-> MatchEntity(graph, doc_id, name)]
            /\ ret' = [raised |-> FALSE,
                       value  |-> create_entity_result(g2, name, doc_id)]
            /\ UNCHANGED <<openai_key, groq_key, llm>>

CreateRelationship(keys, rel_types, descriptions) ==
    \E src \in keys, tgt \in keys, rel_type \in rel_types,
       description \in descriptions :
        LET doc_id == src[1]
            g2 == create_relationship(graph, src[2], tgt[2], rel_type,
                                      description, doc_id)
        IN  /\ BagCardinality(g2.rels) <= MaxRels
            /\ graph' = g2
            /\ call' = [op |-> "create_relationship", doc_id |-> doc_id,
                        source_name |-> src[2], target_name |-> tgt[2],
                        rel_type |-> rel_type, description |-> description]
            /\ ret' = [raised |-> FALSE,
                       value  |-> create_relationship_result(rel_type)]
            /\ UNCHANGED <<openai_key, groq_key, llm>>

CreateSection(section_ids, doc_ids) ==
    \E section_id \in section_ids, doc_id \in doc_ids :
        /\ graph' = create_section(graph, section_id, section_id, 1, doc_id)
        /\ call' = [op |-> "create_section", section_id |-> section_id,
                    doc_id |-> doc_id]
        /\ ret' = NoRet
        /\ UNCHANGED <<openai_key, groq_key, llm>>

(***************************************************************************)
(* Actions of the writers of the GLOBAL nodes.  The calls of                *)
(* create_timeperiod and normalize_financial_entities record the nodes     *)
(* already stored under the keys they merge on.                            *)
(***************************************************************************)
CreateTimePeriod(labels, years, period_types) ==
    \E label \in labels, year \in years, period_type \in period_types :
        /\ graph' = create_timeperiod(graph, label, year, period_type)
        /\ call' = [op |-> "create_timeperiod", label |-> label,
                    year |-> year, period_type |-> period_type,
                    matched |-> {t \in BagToSet(graph.timeperiods) :
                                    t.label = label}]
        /\ ret' = NoRet
        /\ UNCHANGED <<openai_key, groq_key, llm>>

PersistTimePeriods(section_lists, doc_ids) ==
    \E sections \in section_lists, doc_id \in doc_ids :
        LET done == persist_timeperiods(graph, sections, doc_id)
        IN  /\ graph' = done.g
            /\ call' = [op |-> "persist_timeperiods", doc_id |-> doc_id]
            /\ ret' = [raised |-> FALSE,
                       value |-> [periods_created |-> done.periods_created,
                                  section_links |-> done.section_links]]
            /\ UNCHANGED <<openai_key, groq_key, llm>>

NormalizeFinancialEntities(doc_ids) ==
    \E doc_id \in doc_ids :
        LET done == normalize_financial_entities(graph, doc_id)
            names == {l.concept : l \in {x \in done.g.normalized_to :
                                            x.doc_id = doc_id}}
        IN  /\ graph' = done.g
            /\ call' = [op |-> "normalize_financial_entities",
                        doc_id |-> doc_id,
                        matched |-> {fc \in BagToSet(graph.concepts) :
                                        fc.name \in names}]
            /\ ret' = [raised |-> FALSE,
                       value |-> [concepts_created |-> done.concepts_created,
                                  entity_links |-> done.entity_links]]
            /\ UNCHANGED <<openai_key, groq_key, llm>>

ClearGraph ==
    /\ graph' = clear_graph(graph)
    /\ call' = [op |-> "clear_graph"]
    /\ ret' = NoRet
    /\ UNCHANGED <<openai_key, groq_key, llm>>

(***************************************************************************)
(* Actions of the entity/relationship stage.                               *)
(***************************************************************************)
ExtractEntitiesAndRelationships(texts, runs) ==
    \E text \in texts, is_empty \in BOOLEAN :
      \E run \in RunsFor(runs, text, is_empty) :
        LET x == extract_entities_and_relationships(text, is_empty,
                                                    run[1], run[2])
        IN  /\ call' = [op |-> "extract_entities_and_relationships",
                        text |-> text, is_empty |-> is_empty]
            /\ ret' = [raised |-> FALSE, value |-> x.extraction]
            /\ llm' = x.llm
            /\ UNCHANGED <<graph, openai_key, groq_key>>

ProcessSectionText(texts, section_ids, doc_ids, runs) ==
    \E text \in texts, section_id \in section_ids, doc_id \in doc_ids,
       is_empty \in BOOLEAN :
      \E run \in RunsFor(runs, text, is_empty) :
        LET x == extract_entities_and_relationships(text, is_empty,
                                                    run[1], run[2])
            done == persist_extraction(graph, x.extraction, section_id, doc_id)
        IN  /\ graph' = done.g
            /\ call' = [op |-> "process_section_text", text |-> text,
                        section_id |-> section_id, doc_id |-> doc_id,
                        is_empty |-> is_empty, merged |-> done.merged]
            /\ ret' = IF done.raised THEN [raised |-> TRUE]
                      ELSE [raised |-> FALSE,
                            value |-> [entities |-> done.entities,
                                       relationships |-> done.relationships]]
            /\ llm' = x.llm
            /\ UNCHANGED <<openai_key, groq_key>>

(***************************************************************************)
(* Actions of the financial-fact stage.                                    *)
(***************************************************************************)
ExtractFactsFromTables(sections, doc_ids) ==
    \E section \in sections, doc_id \in doc_ids :
        LET done == extract_facts_from_tables(graph, section, doc_id)
        IN  /\ graph' = done.g
            /\ call' = [op |-> "extract_facts_from_tables",
                        section_id |-> section.section_id,
                        doc_id |-> doc_id]
            /\ ret' = [raised |-> FALSE, value |-> done.created]
            /\ UNCHANGED <<openai_key, groq_key, llm>>

ChatCompletionCall(site) ==
    \E run \in TextOutcomes \X TextOutcomes :
        LET cc == IF site = "global_query_v4"
                  THEN query_chat_completion(openai_key, groq_key, run[1], run[2])
                  ELSE bot9_chat_completion(openai_key, groq_key, run[1], run[2])
        IN  /\ call' = [op |-> "chat_completion", site |-> site]
            /\ ret' = IF cc.raised THEN [raised |-> TRUE]
                      ELSE [raised |-> FALSE, value |-> cc.response]
            /\ llm' = [called |-> cc.called, attempts |-> cc.attempts,
                       raised |-> cc.raised]
            /\ UNCHANGED <<graph, openai_key, groq_key>>

\* An empty store behind a fresh client; both provider keys set.
Init ==
    /\ graph = EmptyGraph
    /\ call = NoCall
    /\ ret = NoRet
    /\ openai_key = TRUE
    /\ groq_key = TRUE
    /\ llm = NoLlm

Next ==
    \/ CreateEntity(EntityKeys, EntityTypes, Descriptions, Saliences)
    \/ ClearGraph

Spec == Init /\ [][Next]_vars

\* The relationship calls, over entities that differ only by their key.
NextRel ==
    \/ CreateEntity(RelEntityKeys, {"ORGANIZATION"}, {<<>>}, {"SUPPORTING"})
    \/ CreateRelationship(RelEntityKeys, RelTypeInputs, RelDescriptions)
    \/ ClearGraph

SpecRel == Init /\ [][NextRel]_vars

\* Chunk texts: empty, whitespace only, and with content.
ChunkTexts == {<<>>, <<" ", "\n">>, <<"a">>}

SectionIds == {"s1"}

\* An empty store; either provider key may be set or not.
InitStage ==
    /\ graph = EmptyGraph
    /\ call = NoCall
    /\ ret = NoRet
    /\ openai_key \in BOOLEAN
    /\ groq_key \in BOOLEAN
    /\ llm = NoLlm

NextStage ==
    \/ ExtractEntitiesAndRelationships(ChunkTexts, BackendRuns)
    \/ ProcessSectionText(ChunkTexts, SectionIds, DocIds, BackendRuns)
    \/ ChatCompletionCall("global_query_v4")
    \/ ChatCompletionCall("bot9_community_summarization")
    \/ ClearGraph

SpecStage == InitStage /\ [][NextStage]_vars

\* A statement table with a Group column and a column that is no
\* scope_year, a metric row with a value, and a row naming no metric.
StatementTable ==
    [type |-> "financial_statement",
     currency |-> <<"R", "s", ".", "'", "0", "0", "0">>,
     columns |-> <<<<"G", "r", "o", "u", "p", "_", "2", "0", "2", "4">>, <<"N", "o", "t", "e">>>>,
     rows |-> <<[item |-> JStr(<<"T", "o", "t", "a", "l", " ", "A", "s", "s", "e", "t", "s">>),
                 cells |-> << <<<<"g", "r", "o", "u", "p", "_", "2", "0", "2", "4">>, JStr(<<"1", ",", "5", "0", "0">>)>>,
                              <<<<"N", "o", "t", "e">>, JInt(7)>> >>],
                [item |-> JStr(<<"T", "a", "x">>),
                 cells |-> << <<<<"g", "r", "o", "u", "p", "_", "2", "0", "2", "4">>, JInt(3)>> >>]>>]

\* A statement table whose row is keyed by the column name as written, and
\* a table that is not a financial statement.
OtherTables ==
    <<[type |-> "financial_statement",
       currency |-> <<>>,
       columns |-> <<<<"C", "o", "m", "p", "a", "n", "y", "_", "2", "0", "2", "3">>>>,
       rows |-> <<[item |-> JStr(<<"N", "e", "t", " ", "l", "o", "s", "s">>),
                   cells |-> << <<<<"C", "o", "m", "p", "a", "n", "y", "_", "2", "0", "2", "3">>, JInt(2)>>,
                                <<<<"c", "o", "m", "p", "a", "n", "y", "_", "2", "0", "2", "3">>, JStr(<<"-">>)>> >>]>>],
      [type |-> "text",
       currency |-> <<>>,
       columns |-> <<<<"G", "r", "o", "u", "p", "_", "2", "0", "2", "4">>>>,
       rows |-> <<[item |-> JStr(<<"R", "e", "v", "e", "n", "u", "e">>),
                   cells |-> << <<<<"g", "r", "o", "u", "p", "_", "2", "0", "2", "4">>, JInt(1)>> >>]>>]>>

FactSections ==
    {[section_id |-> "s1", tables |-> <<StatementTable>>],
     [section_id |-> "s1", tables |-> OtherTables],
     [section_id |-> "s1", tables |-> <<>>]}

\* The backend runs of SpecDoc: the well-formed extraction from OpenAI, and
\* the one with dropped relationships from Groq after OpenAI failed.
DocRuns == {<<1, 0>>, <<0, 2>>}

\* Both stages that write Entity nodes while a document is processed.
NextDoc ==
    \/ ProcessSectionText({<<"a">>}, SectionIds, DocIds, DocRuns)
    \/ ExtractFactsFromTables(FactSections, DocIds)
    \/ ClearGraph

SpecDoc == Init /\ [][NextDoc]_vars

\* Entities of two documents whose names are aliases of one concept.
GlobalEntityKeys ==
    {<<DEFAULT_DOC_ID, <<"R", "e", "v", "e", "n", "u", "e">>>>,
     <<"report", <<"N", "e", "t", " ", "S", "a", "l", "e", "s">>>>}

TimeLabels == {<<"F", "Y", "2", "0", "2", "4">>}

TimeYears == {2024, 2025}

\* The sections handed to persist_timeperiods: one whose text names a
\* fiscal year next to a context word, and one without text.
SectionLists ==
    {<<[section_id |-> "s1",
        text |-> <<"F", "Y", " ", "2", "0", "2", "4", " ", "r", "e", "s", "u", "l", "t", "s">>],
       [section_id |-> "s1", text |-> <<>>]>>}

\* The writers of the GLOBAL nodes, run for two documents.
NextGlobal ==
    \/ CreateEntity(GlobalEntityKeys, {"METRIC"}, {<<>>}, {"CORE"})
    \/ CreateSection(SectionIds, DocIds)
    \/ CreateTimePeriod(TimeLabels, TimeYears, {"ANNUAL"})
    \/ PersistTimePeriods(SectionLists, DocIds)
    \/ NormalizeFinancialEntities(DocIds)
    \/ ClearGraph

SpecGlobal == Init /\ [][NextGlobal]_vars

(***************************************************************************)
(* The chunker (bots/bot2_chunker.py).  The encoder maps a text to token   *)
(* ids and back; a token of the model is one character of Vocabulary and   *)
(* its id is the character's position there.  chunk_by_tokens returns the  *)
(* decoded chunks; the model returns with them the token slices            *)
(* (chunk_tokens) the chunks were decoded from.                            *)
(***************************************************************************)
CHUNK_SIZE == 600

CHUNK_OVERLAP == 100

MAX_CHUNK_SIZE == 800

Vocabulary == <<"a", "b", "c", "d", "e", " ", "\n">>

token_id == [c \in {Vocabulary[k] : k \in DOMAIN Vocabulary} |->
                CHOOSE k \in DOMAIN Vocabulary : Vocabulary[k] = c]

encode(text) == [i \in 1..Len(text) |-> token_id[text[i]]]

decode(tokens) == [i \in 1..Len(tokens) |-> Vocabulary[tokens[i]]]

min(a, b) == IF a < b THEN a ELSE b

max(a, b) == IF a > b THEN a ELSE b

\* The while loop of chunk_by_tokens from the given start, with the chunks
\* appended so far; starts are the values start has had at the top of the
\* loop body.
RECURSIVE chunk_loop(_, _, _, _, _)
chunk_loop(tokens, chunk_size, overlap, start, acc) ==
    IF ~(start < Len(tokens))
    THEN [raised |-> FALSE, chunks |-> acc.chunks,
          chunk_tokens |-> acc.chunk_tokens, starts |-> acc.starts]
    ELSE bind(min(start + chunk_size, Len(tokens)), LAMBDA end :
         bind(SubSeq(tokens, start + 1, end), LAMBDA chunk_tokens :
            IF Len(chunk_tokens) > MAX_CHUNK_SIZE
            THEN [raised |-> TRUE, chunks |-> <<>>, chunk_tokens |-> <<>>,
                  starts |-> Append(acc.starts, start)]
            ELSE bind([chunks |-> Append(acc.chunks, decode(chunk_tokens)),
                       chunk_tokens |-> Append(acc.chunk_tokens, chunk_tokens),
                       starts |-> Append(acc.starts, start)],
                      LAMBDA appended :
                 IF end = Len(tokens)
                 THEN [raised |-> FALSE, chunks |-> appended.chunks,
                       chunk_tokens |-> appended.chunk_tokens,
                       starts |-> appended.starts]
                 ELSE bind(max(end - overlap, start + 1), LAMBDA next_start :
                        chunk_loop(tokens, chunk_size, overlap,
                                   next_start, appended)))))

\* chunk_by_tokens stepping back one token more than the overlap.
chunk_by_tokens_overlap_off_by_one(text, chunk_size, overlap) ==
    bind(encode(text), LAMBDA tokens :
        IF Len(tokens) <= chunk_size
        THEN [raised |-> FALSE, chunks |-> <<text>>,
              chunk_tokens |-> <<tokens>>, starts |-> <<>>]
        ELSE chunk_loop(tokens, chunk_size, overlap + 1, 0,
                        [chunks |-> <<>>, chunk_tokens |-> <<>>,
                         starts |-> <<>>]))

chunk_by_tokens(text, chunk_size, overlap) ==
    bind(encode(text), LAMBDA tokens :
        IF Len(tokens) <= chunk_size
        THEN [raised |-> FALSE, chunks |-> <<text>>,
              chunk_tokens |-> <<tokens>>, starts |-> <<>>]
        ELSE chunk_loop(tokens, chunk_size, overlap, 0,
                        [chunks |-> <<>>, chunk_tokens |-> <<>>,
                         starts |-> <<>>]))

\* chunk_by_tokens applied to the text the state holds.  The call records
\* the token slices behind the returned chunks.
ChunkByTokens ==
    /\ call.op = "section_text"
    /\ \E done \in {chunk_by_tokens(call.text, call.chunk_size, call.overlap)} :
           /\ call' = [op |-> "chunk_by_tokens",
                       text |-> call.text,
                       chunk_size |-> call.chunk_size,
                       overlap |-> call.overlap,
                       chunk_tokens |-> done.chunk_tokens,
                       starts |-> done.starts]
           /\ ret' = IF done.raised
                     THEN [raised |-> TRUE]
                     ELSE [raised |-> FALSE, value |-> done.chunks]
    /\ UNCHANGED <<graph, openai_key, groq_key, llm>>

(***************************************************************************)
(* SpecChunk: chunk_by_tokens over section texts of every token count up   *)
(* to MaxTokens, with the configured chunk size and overlap and with a     *)
(* chunk size above MAX_CHUNK_SIZE.                                        *)
(***************************************************************************)
MaxTokens == 1201

\* A text of n tokens in which equal tokens are 7 apart.
section_text(n) == [i \in 1..n |-> Vocabulary[(i % Len(Vocabulary)) + 1]]

ChunkSettings ==
    {<<CHUNK_SIZE, CHUNK_OVERLAP>>, <<MAX_CHUNK_SIZE + 1, CHUNK_OVERLAP>>}

InitChunk ==
    /\ graph = EmptyGraph
    /\ call \in {[op |-> "section_text", text |-> section_text(n),
                  chunk_size |-> s[1], overlap |-> s[2]] :
                    n \in 0..MaxTokens, s \in ChunkSettings}
    /\ ret = NoRet
    /\ openai_key = TRUE
    /\ groq_key = TRUE
    /\ llm = NoLlm

NextChunk == ChunkByTokens

SpecChunk == InitChunk /\ [][NextChunk]_vars

(***************************************************************************)
(* SpecSplit: chunk_by_tokens over short texts with every chunk size from  *)
(* 1 to MaxSplitSize and every overlap from 0 to MaxSplitOverlap, so that  *)
(* the overlap is below, equal to and above the chunk size.                *)
(***************************************************************************)
MaxSplitTokens == 8

MaxSplitSize == 4

MaxSplitOverlap == 5

InitSplit ==
    /\ graph = EmptyGraph
    /\ call \in {[op |-> "section_text", text |-> section_text(n),
                  chunk_size |-> chunk_size, overlap |-> overlap] :
                    n \in 0..MaxSplitTokens, chunk_size \in 1..MaxSplitSize,
                    overlap \in 0..MaxSplitOverlap}
    /\ ret = NoRet
    /\ openai_key = TRUE
    /\ groq_key = TRUE
    /\ llm = NoLlm

SpecSplit == InitSplit /\ [][NextChunk]_vars

(***************************************************************************)
(* Section-aware chunking (bots/bot2_chunker.py).  A chunk object carries  *)
(* the fields the chunker computes; the fields _make_chunk copies from the *)
(* section unchanged (title, level, parent, pages) are left out.           *)
(***************************************************************************)
IsBlank(c) == c \in {" ", "\t"}

\* re.sub(r"\n{3,}", "\n\n", text): of a run of newlines the first two stay.
collapse_newlines(text) ==
    keep(text, {i \in 1..Len(text) :
                    ~(/\ text[i] = "\n"
                      /\ i >= 3
                      /\ text[i - 1] = "\n"
                      /\ text[i - 2] = "\n")})

\* re.sub(r"[ \t]{2,}", " ", text): a run of two or more blanks becomes one
\* space; a single blank stays as it is.
collapse_blanks(text) ==
    bind(keep(text, {i \in 1..Len(text) :
                        ~(IsBlank(text[i]) /\ i > 1 /\ IsBlank(text[i - 1]))}),
         LAMBDA firsts :
            bind({i \in 1..Len(text) :
                     /\ IsBlank(text[i])
                     /\ ~(i > 1 /\ IsBlank(text[i - 1]))
                     /\ i < Len(text) /\ IsBlank(text[i + 1])},
                 LAMBDA runs :
                    bind({Cardinality({j \in 1..i :
                              ~(IsBlank(text[j]) /\ j > 1 /\ IsBlank(text[j - 1]))})
                            : i \in runs},
                         LAMBDA spaced :
                            [n \in 1..Len(firsts) |->
                                IF n \in spaced THEN " " ELSE firsts[n]])))

\* line.rstrip() on every line of text.splitlines(), joined by "\n": the
\* whitespace that ends a line goes; so does the line break that ends the
\* text.
rstrip_lines(text) ==
    bind(keep(text, {i \in 1..Len(text) :
                        \/ ~IsBlank(text[i])
                        \/ \E j \in (i + 1)..Len(text) :
                              /\ ~IsSpace(text[j])
                              /\ \A k \in i..j : text[k] # "\n"}),
         LAMBDA lines :
            IF lines # <<>> /\ lines[Len(lines)] = "\n"
            THEN SubSeq(lines, 1, Len(lines) - 1)
            ELSE lines)

normalize_text(text) ==
    strip(rstrip_lines(collapse_blanks(collapse_newlines(text))))

count_tokens(text) == Len(encode(text))

\* section.get("text", ""): has_text tells whether the section has the key.
extract_text_for_section(full_text, section) ==
    IF section.has_text THEN section.text ELSE <<>>

make_chunk(text, section, doc_id, chunk_in_section, global_index, is_empty) ==
    [chunk_id |-> <<doc_id, section.section_id, chunk_in_section>>,
     chunk_index |-> global_index,
     doc_id |-> doc_id,
     section_id |-> section.section_id,
     text |-> text,
     token_count |-> count_tokens(text),
     is_empty |-> is_empty]

\* The chunks of one section appended to the chunks built so far.
chunks_of_section(chunks, normalized, section, doc_id, chunk_size, overlap) ==
    bind(extract_text_for_section(normalized, section), LAMBDA section_text_ :
        IF strip(section_text_) = <<>>
        THEN [raised |-> FALSE,
              chunks |-> Append(chunks,
                                make_chunk(<<>>, section, doc_id, 1,
                                           Len(chunks), TRUE))]
        ELSE bind(chunk_by_tokens(section_text_, chunk_size, overlap),
                  LAMBDA split :
                    IF split.raised
                    THEN [raised |-> TRUE, chunks |-> <<>>]
                    ELSE [raised |-> FALSE,
                          chunks |-> chunks \o
                              [idx \in 1..Len(split.chunks) |->
                                  make_chunk(split.chunks[idx], section, doc_id,
                                             idx, Len(chunks) + idx - 1,
                                             FALSE)]]))

\* build_chunks_from_sections leaving out the sections without text.
build_chunks_skipping_empty_sections(full_text, sections, doc_id, chunk_size, overlap) ==
    bind(normalize_text(full_text), LAMBDA normalized :
        LET built[i \in 0..Len(sections)] ==
                IF i = 0 THEN [raised |-> FALSE, chunks |-> <<>>]
                ELSE bind(built[i - 1], LAMBDA before :
                        IF before.raised THEN before
                        ELSE IF strip(extract_text_for_section(normalized,
                                                               sections[i])) = <<>>
                        THEN before
                        ELSE chunks_of_section(before.chunks, normalized,
                                               sections[i], doc_id,
                                               chunk_size, overlap))
        IN  built[Len(sections)])

build_chunks_from_sections(full_text, sections, doc_id, chunk_size, overlap) ==
    bind(normalize_text(full_text), LAMBDA normalized :
        LET built[i \in 0..Len(sections)] ==
                IF i = 0 THEN [raised |-> FALSE, chunks |-> <<>>]
                ELSE bind(built[i - 1], LAMBDA before :
                        IF before.raised THEN before
                        ELSE chunks_of_section(before.chunks, normalized,
                                               sections[i], doc_id,
                                               chunk_size, overlap))
        IN  built[Len(sections)])

build_chunks_without_sections(text, doc_id, chunk_size, overlap) ==
    bind(normalize_text(text), LAMBDA normalized :
        bind(chunk_by_tokens(normalized, chunk_size, overlap), LAMBDA split :
            IF split.raised
            THEN [raised |-> TRUE, chunks |-> <<>>]
            ELSE [raised |-> FALSE,
                  chunks |-> [idx \in 1..Len(split.chunks) |->
                      [chunk_id |-> <<doc_id, "section_0", idx>>,
                       chunk_index |-> idx - 1,
                       doc_id |-> doc_id,
                       section_id |-> "section_0",
                       text |-> split.chunks[idx],
                       token_count |-> count_tokens(split.chunks[idx]),
                       is_empty |-> FALSE]]]))

\* build_chunks_from_sections applied to the sections the state holds.
BuildChunksFromSections ==
    /\ call.op = "sections"
    /\ \E done \in {build_chunks_from_sections(call.full_text, call.sections,
                                               call.doc_id, call.chunk_size,
                                               call.overlap)} :
           /\ call' = [call EXCEPT !.op = "build_chunks_from_sections"]
           /\ ret' = IF done.raised
                     THEN [raised |-> TRUE]
                     ELSE [raised |-> FALSE, value |-> done.chunks]
    /\ UNCHANGED <<graph, openai_key, groq_key, llm>>

\* build_chunks_without_sections applied to the text the state holds.
BuildChunksWithoutSections ==
    /\ call.op = "document_text"
    /\ \E done \in {build_chunks_without_sections(call.full_text, call.doc_id,
                                                  call.chunk_size,
                                                  call.overlap)} :
           /\ call' = [call EXCEPT !.op = "build_chunks_without_sections"]
           /\ ret' = IF done.raised
                     THEN [raised |-> TRUE]
                     ELSE [raised |-> FALSE, value |-> done.chunks]
    /\ UNCHANGED <<graph, openai_key, groq_key, llm>>

(***************************************************************************)
(* SpecSections: the two chunk builders over documents of up to            *)
(* MaxSections sections.  The section texts are empty, blank, absent, one  *)
(* token, with a run of two spaces, and several tokens with single spaces; *)
(* the settings are the configured ones and                                *)
(* small ones under which a short text is split.                           *)
(***************************************************************************)
MaxSections == 2

SectionTexts ==
    {[has_text |-> FALSE, text |-> <<>>]}
    \cup {[has_text |-> TRUE, text |-> t] :
             t \in {<<>>, <<" ", "\n">>, <<"a">>, <<"a", " ", " ", "b">>,
                    <<"a", "b", " ", "c", "d", " ", "e">>}}

SectionsOf(n) == [1..n -> SectionTexts]

Documents ==
    UNION {{[i \in 1..n |-> [section_id |-> IF i = 1 THEN "s1" ELSE
                                            IF i = 2 THEN "s2" ELSE "s3",
                             has_text |-> texts[i].has_text,
                             text |-> texts[i].text]] :
                texts \in SectionsOf(n)}
           : n \in 0..MaxSections}

SmallSettings == {<<CHUNK_SIZE, CHUNK_OVERLAP>>, <<3, 1>>, <<2, 0>>}

DocumentTexts ==
    {<<>>, <<" ", " ", "a", " ", "\n", "\n", "\n", "\n", "b", " ", " ", "c", " ", "\n">>,
     <<"a", "b", " ", "c", "d", " ", "e">>}

InitSections ==
    /\ graph = EmptyGraph
    /\ call \in
         {[op |-> "sections", full_text |-> <<"a", " ", " ", "b">>,
           sections |-> d, doc_id |-> "doc-1",
           chunk_size |-> s[1], overlap |-> s[2]] :
             d \in Documents, s \in SmallSettings}
         \cup
         {[op |-> "document_text", full_text |-> t, doc_id |-> "doc-1",
           chunk_size |-> s[1], overlap |-> s[2]] :
             t \in DocumentTexts, s \in SmallSettings}
    /\ ret = NoRet
    /\ openai_key = TRUE
    /\ groq_key = TRUE
    /\ llm = NoLlm

NextSections ==
    \/ BuildChunksFromSections
    \/ BuildChunksWithoutSections

SpecSections == InitSections /\ [][NextSections]_vars

(***************************************************************************)
(* The reference stage (bots/bot4_reference_extractor.py).                 *)
(***************************************************************************)
\* \d+(?:\.\d+)*
NumberLocator == Plus(<<Dig(1)>>) \o <<Star(<<Lit(<<".">>)>> \o Plus(<<Dig(1)>>))>>

REFERENCE_PATTERNS ==
    <<[pattern |-> <<WordB, Lit(<<"p", "a", "g", "e">>), WsPlus>>
                   \o Group(Plus(<<Dig(1)>>)) \o <<WordB>>,
       ref_type |-> "PAGE"],
      [pattern |-> <<WordB, Lit(<<"s", "e", "c", "t", "i", "o", "n">>), WsPlus>>
                   \o Group(NumberLocator) \o <<WordB>>,
       ref_type |-> "SECTION"],
      [pattern |-> <<WordB, Lit(<<"a", "p", "p", "e", "n", "d", "i", "x">>), WsPlus>>
                   \o Group(<<Cls({Uppers[k] : k \in DOMAIN Uppers})>>)
                   \o <<WordB>>,
       ref_type |-> "APPENDIX"],
      [pattern |-> <<WordB, Lit(<<"t", "a", "b", "l", "e">>), WsPlus>>
                   \o Group(NumberLocator) \o <<WordB>>,
       ref_type |-> "TABLE"],
      [pattern |-> <<WordB, Lit(<<"f", "i", "g", "u", "r", "e">>), WsPlus>>
                   \o Group(NumberLocator) \o <<WordB>>,
       ref_type |-> "FIGURE"],
      [pattern |-> <<WordB, Lit(<<"f", "i", "g", ".">>), WsStar>>
                   \o Group(NumberLocator) \o <<WordB>>,
       ref_type |-> "FIGURE"]>>

CUE_WORDS ==
    {<<"s", "e", "e">>, <<"r", "e", "f", "e", "r">>, <<"d", "e", "f", "i", "n", "e", "d">>, <<"d", "e", "t", "a", "i", "l", "e", "d">>, <<"e", "x", "p", "l", "a", "i", "n", "e", "d">>, <<"s", "h", "o", "w", "n">>}

REFERENCE_WINDOW == 60

infer_reference_reason(context) ==
    IF contains(context, <<"d", "e", "f", "i", "n", "e", "d">>) THEN "DEFINED_IN"
    ELSE IF \E k \in {<<"d", "e", "t", "a", "i", "l", "e", "d">>, <<"e", "x", "p", "l", "a", "i", "n", "e", "d">>, <<"d", "e", "s", "c", "r", "i", "b", "e", "d">>} :
                contains(context, k)
    THEN "DETAILED_IN"
    ELSE "REFERENCED_IN"

deduplicate_references(references) ==
    keep(references,
         {i \in 1..Len(references) :
             \A j \in 1..(i - 1) :
                 references[j].reference_id # references[i].reference_id})

\* text[max(0, start - 60): min(len(text), end + 60)].lower() around a match
reference_window(text, m) ==
    str_lower(SubSeq(text,
                     max(1, m.start - REFERENCE_WINDOW),
                     min(Len(text), m.end - 1 + REFERENCE_WINDOW)))

has_cue(window) == \E k \in CUE_WORDS : contains(window, k)

\* extract_cross_section_references without the test for a cue word.
extract_references_without_gate(text, section_id, doc_id) ==
    LET from_pattern(n) ==
            bind(finditer(text, REFERENCE_PATTERNS[n].pattern, TRUE),
                 LAMBDA hits :
                    [i \in 1..Len(hits) |->
                        [reference_id |-> <<doc_id, section_id,
                                            REFERENCE_PATTERNS[n].ref_type,
                                            hits[i].caps[1]>>,
                         reference_type |-> REFERENCE_PATTERNS[n].ref_type,
                         target_locator |-> hits[i].caps[1],
                         from_section_id |-> section_id,
                         doc_id |-> doc_id,
                         reason |-> infer_reference_reason(
                                        reference_window(text, hits[i]))]])
        references[n \in 0..Len(REFERENCE_PATTERNS)] ==
            IF n = 0 THEN <<>> ELSE references[n - 1] \o from_pattern(n)
    IN  deduplicate_references(references[Len(REFERENCE_PATTERNS)])

extract_cross_section_references(text, section_id, doc_id) ==
    LET from_pattern(n) ==
            bind(finditer(text, REFERENCE_PATTERNS[n].pattern, TRUE),
                 LAMBDA hits :
                  bind(keep(hits, {i \in 1..Len(hits) :
                                      has_cue(reference_window(text, hits[i]))}),
                       LAMBDA found :
                    [i \in 1..Len(found) |->
                        [reference_id |-> <<doc_id, section_id,
                                            REFERENCE_PATTERNS[n].ref_type,
                                            found[i].caps[1]>>,
                         reference_type |-> REFERENCE_PATTERNS[n].ref_type,
                         target_locator |-> found[i].caps[1],
                         from_section_id |-> section_id,
                         doc_id |-> doc_id,
                         reason |-> infer_reference_reason(
                                        reference_window(text, found[i]))]]))
        references[n \in 0..Len(REFERENCE_PATTERNS)] ==
            IF n = 0 THEN <<>> ELSE references[n - 1] \o from_pattern(n)
    IN  deduplicate_references(references[Len(REFERENCE_PATTERNS)])

\* extract_cross_section_references applied to the text the state holds.
ExtractCrossSectionReferences ==
    /\ call.op = "reference_text"
    /\ \E done \in {extract_cross_section_references(call.text,
                                                     call.section_id,
                                                     call.doc_id)} :
           /\ call' = [call EXCEPT !.op = "extract_cross_section_references"]
           /\ ret' = [raised |-> FALSE, value |-> done]
    /\ UNCHANGED <<graph, openai_key, groq_key, llm>>

\* extract_timeperiods applied to the text the state holds.
ExtractTimeperiods ==
    /\ call.op = "timeperiod_text"
    /\ \E done \in {extract_timeperiods(call.text)} :
           /\ call' = [call EXCEPT !.op = "extract_timeperiods"]
           /\ ret' = [raised |-> FALSE, value |-> done]
    /\ UNCHANGED <<graph, openai_key, groq_key, llm>>

\* parse_column applied to the column name the state holds.
ParseColumn ==
    /\ call.op = "column"
    /\ \E done \in {parse_column(call.col)} :
           /\ call' = [call EXCEPT !.op = "parse_column"]
           /\ ret' = [raised |-> FALSE, value |-> done]
    /\ UNCHANGED <<graph, openai_key, groq_key, llm>>

(***************************************************************************)
(* SpecExtract: the deterministic extractors over texts with and without   *)
(* the words and numbers they look for, and parse_column over column names *)
(* with known and unknown scopes and years of several lengths.             *)
(***************************************************************************)
ColumnScopes ==
    {<<"G", "r", "o", "u", "p">>, <<"c", "o", "m", "p", "a", "n", "y">>, <<"G", "R", "O", "U", "P">>, <<"R", "e", "v", "e", "n", "u", "e">>, <<"G", "r", "o", "u", "p", "s">>, <<>>}

ColumnYears ==
    {<<"2", "0", "2", "4">>, <<"2", "4">>, <<"2", "0", "2", "4", "5">>, <<>>, <<"2", "0", "a", "4">>, <<"2", "0", "2", "4", "_", "Q", "1">>}

ColumnNames ==
    {scope \o <<"_">> \o year : scope \in ColumnScopes, year \in ColumnYears}
    \cup {<<"N", "o", "t", "e">>, <<"G", "r", "o", "u", "p", "2", "0", "2", "4">>, <<"G", "r", "o", "u", "p", " ", "2", "0", "2", "4">>}

NoCueText == <<"T", "o", "t", "a", "l", " ", "a", "s", "s", "e", "t", "s", " ", "w", "e", "r", "e", " ", "4", "2", ".">>

SeeTableText == <<"s", "e", "e", " ", "T", "a", "b", "l", "e", " ", "2", " ", "f", "o", "r", " ", "d", "e", "t", "a", "i", "l", "s">>

\* A cue word more than 60 characters before and after the locators.
FarCueText ==
    <<"p", "a", "g", "e", " ", "7", " ">>
    \o [i \in 1..REFERENCE_WINDOW |-> "x"]
    \o <<" ", "r", "e", "f", "e", "r", " ">>
    \o [i \in 1..REFERENCE_WINDOW |-> "x"]
    \o <<" ", "t", "a", "b", "l", "e", " ", "3">>

ReferenceTexts ==
    {<<>>, NoCueText, SeeTableText, FarCueText,
     <<"T", "a", "b", "l", "e", " ", "2">>,
     <<"a", "s", " ", "d", "e", "f", "i", "n", "e", "d", " ", "i", "n", " ", "S", "e", "c", "t", "i", "o", "n", " ", "3", ".", "1", ".", "2", " ", "a", "n", "d", " ", "d", "e", "t", "a", "i", "l", "e", "d", " ", "t", "h", "e", "r", "e">>,
     <<"e", "x", "p", "l", "a", "i", "n", "e", "d", " ", "i", "n", " ", "A", "P", "P", "E", "N", "D", "I", "X", " ", "b", ",", " ", "s", "e", "e", " ", "a", "p", "p", "e", "n", "d", "i", "x", " ", "B">>,
     <<"s", "h", "o", "w", "n", " ", "i", "n", " ", "F", "i", "g", ".", " ", "4", " ", "a", "n", "d", " ", "f", "i", "g", "u", "r", "e", " ", "4", ".", "1", ",", " ", "p", "a", "g", "e", " ", "1", "2">>,
     <<"r", "e", "f", "e", "r", " ", "t", "o", " ", "t", "a", "b", "l", "e", " ", "2", ",", " ", "T", "a", "b", "l", "e", " ", "2", " ", "a", "n", "d", " ", "T", "A", "B", "L", "E", " ", "1", "0">>,
     <<"o", "v", "e", "r", "s", "e", "e", "n", " ", "t", "a", "b", "l", "e", "s", " ", "5", ";", " ", "d", "e", "s", "c", "r", "i", "b", "e", "d", " ", "i", "n", " ", "s", "e", "c", "t", "i", "o", "n", " ", "9">>,
     <<"i", "t", " ", "i", "s", " ", "d", "e", "s", "c", "r", "i", "b", "e", "d", " ", "i", "n", " ", "f", "i", "g", "u", "r", "e", " ", "3">>,
     <<"s", "e", "e", "p", "a", "g", "e", " ", "9", " ", "s", "e", "c", "t", "i", "o", "n", " ", "2", ".", " ", "f", "i", "g", ".", "7">>}

OldYearText == <<"i", "n", " ", "1", "8", "5", "0", " ", "r", "e", "s", "u", "l", "t", "s", " ", "w", "e", "r", "e", " ", "s", "t", "r", "o", "n", "g">>

FiscalYearText == <<"F", "Y", "2", "0", "2", "4", " ", "r", "e", "v", "e", "n", "u", "e", " ", "g", "r", "e", "w">>

MixedYearsText == <<"F", "Y", "1", "9", "8", "5", " ", "a", "n", "d", " ", "F", "Y", " ", "2", "0", "2", "4", " ", "r", "e", "s", "u", "l", "t", "s", ",", " ", "f", "i", "s", "c", "a", "l", " ", "y", "e", "a", "r", " ", "2", "0", "5", "1">>

TimeTexts ==
    {<<>>, OldYearText, FiscalYearText, MixedYearsText,
     <<"F", "Y", "2", "4", " ", "a", "n", "d", " ", "F", "Y", " ", "1", "9", "8", "9">>,
     <<"r", "e", "v", "e", "n", "u", "e", " ", "i", "n", " ", "1", "9", "8", "9", ",", " ", "i", "n", "c", "o", "m", "e", " ", "i", "n", " ", "1", "9", "9", "0", " ", "a", "n", "d", " ", "2", "0", "5", "0", ",", " ", "r", "e", "s", "u", "l", "t", "s", " ", "2", "0", "5", "1">>,
     <<"Q", "1", " ", "F", "Y", "2", "0", "2", "4", ",", " ", "Q", "2", " ", "2", "0", "6", "0", ",", " ", "q", "3", " ", "1", "9", "8", "0", ",", " ", "H", "1", " ", "F", "Y", "2", "0", "2", "5", ",", " ", "h", "2", "f", "y", "1", "9", "7", "5">>,
     <<"q", "u", "a", "r", "t", "e", "r", " ", "4", " ", "o", "f", " ", "f", "i", "s", "c", "a", "l", " ", "y", "e", "a", "r", " ", "2", "0", "2", "3", ";", " ", "q", "u", "a", "r", "t", "e", "r", " ", "1", " ", "o", "f", " ", "F", "Y", " ", "3", "0", "0", "0">>,
     <<"i", "n", " ", "2", "0", "2", "4", " ", "w", "e", " ", "m", "e", "t", ";", " ", "t", "h", "e", " ", "y", "e", "a", "r", " ", "2", "0", "2", "3">>,
     <<"F", "Y", "2", "0", "5", "0", " ", "F", "Y", "2", "0", "5", "1", " ", "F", "Y", "1", "9", "9", "0", " ", "F", "Y", "1", "9", "8", "9">>}

InitExtract ==
    /\ graph = EmptyGraph
    /\ call \in
         {[op |-> "reference_text", text |-> t, section_id |-> s,
           doc_id |-> d] :
             t \in ReferenceTexts, s \in SectionIds, d \in DocIds}
         \cup {[op |-> "timeperiod_text", text |-> t] : t \in TimeTexts}
         \cup {[op |-> "column", col |-> c] : c \in ColumnNames}
    /\ ret = NoRet
    /\ openai_key = TRUE
    /\ groq_key = TRUE
    /\ llm = NoLlm

NextExtract ==
    \/ ExtractCrossSectionReferences
    \/ ExtractTimeperiods
    \/ ParseColumn

SpecExtract == InitExtract /\ [][NextExtract]_vars

(***************************************************************************)
(* Section communities (bots/bot7_community_detection.py).  The section    *)
(* graph is the networkx Graph the code builds: a set of nodes and one     *)
(* weight per undirected edge, an edge being the set of its one or two     *)
(* ends; adding an edge that is there already replaces its weight.  The    *)
(* weights 3.0 and 1.0 + min(shared, 3) are whole numbers and are kept as  *)
(* integers; a modularity is the fraction num / den.                       *)
(***************************************************************************)
SectionNames ==
    <<"s01", "s02", "s03", "s04", "s05", "s06", "s07", "s08", "s09",
      "s10", "s11", "s12", "s13", "s14", "s15", "s16", "s17", "s18">>

\* The position of a section id in the order of the ids
section_rank(section_id) ==
    CHOOSE k \in DOMAIN SectionNames : SectionNames[k] = section_id

RECURSIVE sum_of(_)
\* The sum of the numbers of a set of pairs <<item, number>>
sum_of(pairs) ==
    IF pairs = {} THEN 0
    ELSE bind(CHOOSE p \in pairs : TRUE,
              LAMBDA p : p[2] + sum_of(pairs \ {p}))

RECURSIVE str_int(_)
\* str(n) of a natural number
str_int(n) ==
    IF n < 10 THEN <<Digits[n + 1]>>
    ELSE str_int(n \div 10) \o <<Digits[(n % 10) + 1]>>

REFERENCE_WEIGHT == 3

SHARED_CAP == 3

\* The rows of the three queries of get_section_graph
section_rows(g, doc_id) ==
    {s.section_id : s \in {x \in BagToSet(g.sections) : x.doc_id = doc_id}}

reference_rows(g, doc_id) ==
    {r \in g.references :
        /\ r.doc_id = doc_id
        /\ r.src \in section_rows(g, doc_id)
        /\ r.tgt \in section_rows(g, doc_id)}

\* The CORE and IMPORTANT entities both sections mention
shared_entities(g, doc_id, src, tgt) ==
    {e \in BagToSet(g.entities) :
        /\ e.salience \in {"CORE", "IMPORTANT"}
        /\ e.doc_id = doc_id
        /\ [doc_id |-> doc_id, section_id |-> src, name |-> e.name]
              \in g.mentions
        /\ [doc_id |-> doc_id, section_id |-> tgt, name |-> e.name]
              \in g.mentions}

shared_rows(g, doc_id) ==
    bind(section_rows(g, doc_id), LAMBDA ids :
        {row \in {[src |-> a, tgt |-> b,
                   shared |-> Cardinality(shared_entities(g, doc_id, a, b))] :
                     a \in ids, b \in ids} :
            /\ section_rank(row.src) < section_rank(row.tgt)
            /\ row.shared >= 1})

\* get_section_graph with the weights of an edge's contributions added up.
get_section_graph_adding_weights(g, doc_id) ==
    bind(reference_rows(g, doc_id), LAMBDA refs :
      bind(shared_rows(g, doc_id), LAMBDA shared :
        bind({{r.src, r.tgt} : r \in refs} \cup {{r.src, r.tgt} : r \in shared},
             LAMBDA edges :
                [nodes |-> section_rows(g, doc_id),
                 weight |->
                    [e \in edges |->
                        REFERENCE_WEIGHT
                            * Cardinality({r \in refs : {r.src, r.tgt} = e})
                        + sum_of({<<r, 1 + min(r.shared, SHARED_CAP)>> :
                                    r \in {x \in shared :
                                              {x.src, x.tgt} = e}})]])))

get_section_graph(g, doc_id) ==
    bind(reference_rows(g, doc_id), LAMBDA refs :
      bind(shared_rows(g, doc_id), LAMBDA shared :
        bind({{r.src, r.tgt} : r \in refs} \cup {{r.src, r.tgt} : r \in shared},
             LAMBDA edges :
                [nodes |-> section_rows(g, doc_id),
                 weight |->
                    [e \in edges |->
                        IF \E r \in shared : {r.src, r.tgt} = e
                        THEN bind(CHOOSE r \in shared : {r.src, r.tgt} = e,
                                  LAMBDA r : 1 + min(r.shared, SHARED_CAP))
                        ELSE REFERENCE_WEIGHT]])))

number_of_nodes(G) == Cardinality(G.nodes)

number_of_edges(G) == Cardinality(DOMAIN G.weight)

\* The communities of a partition (a function from the nodes to community
\* ids): the members of every community id in use.
communities_of(partition) ==
    [cid \in {partition[n] : n \in DOMAIN partition} |->
        {n \in DOMAIN partition : partition[n] = cid}]

\* community_louvain.modularity(partition, G, weight="weight"), as the
\* fraction num / den: the sum over the communities of
\* inside / links - (degree / (2 * links)) ^ 2.
modularity_of(partition, G) ==
    bind(sum_of({<<e, G.weight[e]>> : e \in DOMAIN G.weight}), LAMBDA links :
      bind(communities_of(partition), LAMBDA members :
        LET inside(cid) ==
                sum_of({<<e, G.weight[e]>> :
                           e \in {x \in DOMAIN G.weight :
                                     x \subseteq members[cid]}})
            degree(cid) ==
                sum_of({<<e, IF Cardinality(e) = 1
                             THEN IF e \subseteq members[cid]
                                  THEN 2 * G.weight[e] ELSE 0
                             ELSE G.weight[e]
                                  * Cardinality(e \cap members[cid])>> :
                           e \in DOMAIN G.weight})
        IN  [num |-> sum_of({<<cid, 4 * links * inside(cid)
                                    - degree(cid) * degree(cid)>> :
                                cid \in DOMAIN members}),
             den |-> 4 * links * links]))

\* modularity < 0.15
MODULARITY_PERCENT == 15

below_threshold(modularity) ==
    100 * modularity.num < MODULARITY_PERCENT * modularity.den

\* One community of _persist_communities: the MERGE and SET of the node
\* and the CONTAINS edges to the sections that are stored.
persist_community(g, cid, sections, doc_id, modularity, mode) ==
    LET matches(c) == c.community_id = str_int(cid) /\ c.doc_id = doc_id
        written == [community_id |-> str_int(cid), doc_id |-> doc_id,
                    size |-> Cardinality(sections),
                    modularity |-> modularity, mode |-> mode]
        merged ==
            IF \E c \in BagToSet(g.communities) : matches(c)
            THEN BagOfAll(LAMBDA c : IF matches(c) THEN written ELSE c,
                          g.communities)
            ELSE g.communities (+) SetToBag({written})
    IN  [g EXCEPT
            !.communities = merged,
            !.contains = @ \cup
                {[doc_id |-> doc_id, community_id |-> str_int(cid),
                  section_id |-> sid] :
                    sid \in sections \cap section_rows(g, doc_id)}]

RECURSIVE persist_each(_, _, _, _, _, _)
persist_each(g, communities, todo, doc_id, modularity, mode) ==
    IF todo = {} THEN g
    ELSE bind(CHOOSE cid \in todo : TRUE, LAMBDA cid :
            bind(persist_community(g, cid, communities[cid], doc_id,
                                   modularity, mode),
                 LAMBDA after :
                    persist_each(after, communities, todo \ {cid}, doc_id,
                                 modularity, mode)))

persist_communities(g, communities, doc_id, modularity, mode) ==
    [g |-> persist_each(g, communities, DOMAIN communities, doc_id,
                        modularity, mode),
     result |-> [status |-> "ok", mode |-> mode,
                 communities |-> Cardinality(DOMAIN communities),
                 modularity |-> modularity]]

SMALL_DOCUMENT_NODES == 15

MIN_COMMUNITY_SIZE == 2

\* without_singletons keeping every community.
keeping_singletons(communities) == communities

\* The communities kept in normal mode
without_singletons(communities) ==
    [cid \in {c \in DOMAIN communities :
                 Cardinality(communities[c]) >= MIN_COMMUNITY_SIZE} |->
        communities[cid]]

\* detect_section_communities with small mode for fewer than
\* SMALL_DOCUMENT_NODES sections only.
detect_below_small_limit(g, doc_id, partition) ==
    bind(get_section_graph(g, doc_id), LAMBDA G :
      bind(number_of_nodes(G), LAMBDA n_nodes :
        bind(number_of_edges(G), LAMBDA n_edges :
          IF n_nodes = 0
          THEN [g |-> g,
                result |-> [status |-> "empty"]]
          ELSE IF n_nodes < SMALL_DOCUMENT_NODES
          THEN IF n_edges = 0
               THEN persist_communities(g, [cid \in {0} |-> G.nodes], doc_id,
                                        [num |-> 0, den |-> 1], "small")
               ELSE persist_communities(g, communities_of(partition), doc_id,
                                        modularity_of(partition, G), "small")
          ELSE IF n_edges < n_nodes
          THEN [g |-> g,
                result |-> [status |-> "skipped", nodes |-> n_nodes,
                            edges |-> n_edges]]
          ELSE bind(modularity_of(partition, G), LAMBDA modularity :
                 IF below_threshold(modularity)
                 THEN [g |-> g,
                       result |-> [status |-> "rejected",
                                   modularity |-> modularity]]
                 ELSE persist_communities(
                          g, without_singletons(communities_of(partition)),
                          doc_id, modularity, "normal")))))

\* detect_section_communities persisting the partition it rejects.
detect_persisting_rejected(g, doc_id, partition) ==
    bind(get_section_graph(g, doc_id), LAMBDA G :
      bind(number_of_nodes(G), LAMBDA n_nodes :
        bind(number_of_edges(G), LAMBDA n_edges :
          IF n_nodes = 0
          THEN [g |-> g,
                result |-> [status |-> "empty"]]
          ELSE IF n_nodes <= SMALL_DOCUMENT_NODES
          THEN IF n_edges = 0
               THEN persist_communities(g, [cid \in {0} |-> G.nodes], doc_id,
                                        [num |-> 0, den |-> 1], "small")
               ELSE persist_communities(g, communities_of(partition), doc_id,
                                        modularity_of(partition, G), "small")
          ELSE IF n_edges < n_nodes
          THEN [g |-> g,
                result |-> [status |-> "skipped", nodes |-> n_nodes,
                            edges |-> n_edges]]
          ELSE bind(modularity_of(partition, G), LAMBDA modularity :
                 IF below_threshold(modularity)
                 THEN [g |-> persist_communities(
                                 g, without_singletons(communities_of(partition)),
                                 doc_id, modularity, "normal").g,
                       result |-> [status |-> "rejected",
                                   modularity |-> modularity]]
                 ELSE persist_communities(
                          g, without_singletons(communities_of(partition)),
                          doc_id, modularity, "normal")))))

\* detect_section_communities; partition is what
\* community_louvain.best_partition returns where the code calls it.
detect_section_communities(g, doc_id, partition) ==
    bind(get_section_graph(g, doc_id), LAMBDA G :
      bind(number_of_nodes(G), LAMBDA n_nodes :
        bind(number_of_edges(G), LAMBDA n_edges :
          IF n_nodes = 0
          THEN [g |-> g,
                result |-> [status |-> "empty"]]
          ELSE IF n_nodes <= SMALL_DOCUMENT_NODES
          THEN IF n_edges = 0
               THEN persist_communities(g, [cid \in {0} |-> G.nodes], doc_id,
                                        [num |-> 0, den |-> 1], "small")
               ELSE persist_communities(g, communities_of(partition), doc_id,
                                        modularity_of(partition, G), "small")
          ELSE IF n_edges < n_nodes
          THEN [g |-> g,
                result |-> [status |-> "skipped", nodes |-> n_nodes,
                            edges |-> n_edges]]
          ELSE bind(modularity_of(partition, G), LAMBDA modularity :
                 IF below_threshold(modularity)
                 THEN [g |-> g,
                       result |-> [status |-> "rejected",
                                   modularity |-> modularity]]
                 ELSE persist_communities(
                          g, without_singletons(communities_of(partition)),
                          doc_id, modularity, "normal")))))

\* The partitions best_partition is taken to choose from: one community,
\* every section alone, neighbours in the order of the ids in twos, and
\* the two halves of that order.  Community ids count from 0.
Partitions(G) ==
    LET index(n) == Cardinality({m \in G.nodes :
                                    section_rank(m) < section_rank(n)})
    IN  {[n \in G.nodes |-> 0],
         [n \in G.nodes |-> index(n)],
         [n \in G.nodes |-> index(n) \div 2],
         [n \in G.nodes |->
             IF 2 * index(n) < Cardinality(G.nodes) THEN 0 ELSE 1]}

\* detect_section_communities on the stored graph.  The call records the
\* node and edge count of the section graph and the partition.
DetectSectionCommunities(doc_ids) ==
    \E doc_id \in doc_ids :
      \E G \in {get_section_graph(graph, doc_id)} :
        \E partition \in Partitions(G) :
          \E done \in {detect_section_communities(graph, doc_id, partition)} :
            /\ graph' = done.g
            /\ call' = [op |-> "detect_section_communities",
                        doc_id |-> doc_id,
                        n_nodes |-> number_of_nodes(G),
                        n_edges |-> number_of_edges(G),
                        weight |-> G.weight,
                        partition |-> partition]
            /\ ret' = [raised |-> FALSE, value |-> done.result]
            /\ UNCHANGED <<openai_key, groq_key, llm>>

(***************************************************************************)
(* SpecCommunity: detection over stored documents of 0, 1, 2 sections and  *)
(* of SMALL_DOCUMENT_NODES sections and one and two more.  The sections    *)
(* are unconnected, a path (fewer edges than nodes) or a ring (as many);   *)
(* an edge comes from stored references, from shared CORE entities or      *)
(* from both.  The stores are what the writers of the client leave; the    *)
(* reference paths, which no writer of the client creates, are put in.     *)
(***************************************************************************)
CommunitySizes ==
    {0, 1, 2, SMALL_DOCUMENT_NODES, SMALL_DOCUMENT_NODES + 1,
     SMALL_DOCUMENT_NODES + 2}

\* The edges of the sparse document of SMALL_DOCUMENT_NODES + 1 sections
SparseEdges == 10

\* The pairs of section positions joined in a document of n sections
ShapeEdges(shape, n) ==
    CASE shape = "none" -> {}
      [] shape = "path" -> {<<i, i + 1>> : i \in 1..(n - 1)}
      [] shape = "sparse" -> {<<i, i + 1>> : i \in 1..min(n - 1, SparseEdges)}
      [] shape = "ring" -> {<<i, i + 1>> : i \in 1..(n - 1)}
                           \cup (IF n >= 3 THEN {<<1, n>>} ELSE {})

shared_name(i, j, k) ==
    <<"e">> \o str_int(i) \o <<"-">> \o str_int(j) \o <<"-">> \o str_int(k)

\* The store after create_section for each of the first n sections: one
\* Section node for each
with_sections(g, n) ==
    [g EXCEPT !.sections =
        @ (+) SetToBag({[doc_id |-> DEFAULT_DOC_ID,
                         section_id |-> SectionNames[i],
                         title |-> SectionNames[i], level |-> 1] :
                            i \in 1..n})]

\* The store after create_entity and two link_entity_to_section calls for
\* each entity of todo (section pair and number): one CORE entity and its
\* two MENTIONS edges for each
with_shared(g, todo) ==
    [g EXCEPT
        !.entities =
            @ (+) SetToBag({[doc_id |-> DEFAULT_DOC_ID,
                             name |-> shared_name(t[1], t[2], t[3]),
                             type |-> "METRIC", description |-> <<>>,
                             salience |-> "CORE"] : t \in todo}),
        !.mentions =
            @ \cup {[doc_id |-> DEFAULT_DOC_ID,
                     section_id |-> SectionNames[t[k]],
                     name |-> shared_name(t[1], t[2], t[3])] :
                        t \in todo, k \in {1, 2}}]

\* The store with refs references between the sections of each edge
with_references(g, edges, refs) ==
    [g EXCEPT !.references =
        {[doc_id |-> DEFAULT_DOC_ID, src |-> SectionNames[e[2]],
          tgt |-> SectionNames[e[1]], ref |-> <<e[1], e[2], k>>] :
            e \in edges, k \in 1..refs}]

\* The store of a document of n sections joined as shape says, every
\* joined pair with refs references and shared shared entities
community_store(n, shape, refs, shared) ==
    bind(ShapeEdges(shape, n), LAMBDA edges :
        with_references(
            with_shared(with_sections(EmptyGraph, n),
                        {<<e[1], e[2], k>> : e \in edges, k \in 1..shared}),
            edges, refs))

CommunityStores ==
    {community_store(SMALL_DOCUMENT_NODES + 1, "sparse", 0, 1)} \cup
    {community_store(n, shape, s[1], s[2]) :
        n \in CommunitySizes, shape \in {"none", "path", "ring"},
        s \in {<<1, 0>>, <<0, 1>>, <<1, 1>>}}
    \cup {community_store(2, "path", s[1], s[2]) :
            s \in {<<2, 0>>, <<0, 2>>, <<2, 2>>, <<1, 4>>, <<0, 4>>}}

InitCommunity ==
    /\ graph \in CommunityStores
    /\ call = NoCall
    /\ ret = NoRet
    /\ openai_key = TRUE
    /\ groq_key = TRUE
    /\ llm = NoLlm

NextCommunity == DetectSectionCommunities(DocIds)

SpecCommunity == InitCommunity /\ [][NextCommunity]_vars

(***************************************************************************)
(* The query (query/global_query_v4.py) and the community summaries        *)
(* (bots/bot9_community_summarization.py).                                 *)
(***************************************************************************)
SUMMARY_KEYWORDS ==
    {<<"s", "u", "m", "m", "a", "r", "i", "z", "e">>,
     <<"s", "u", "m", "m", "a", "r", "y">>,
     <<"o", "v", "e", "r", "v", "i", "e", "w">>,
     <<"e", "x", "p", "l", "a", "i", "n">>,
     <<"h", "i", "g", "h", " ", "l", "e", "v", "e", "l">>,
     <<"w", "h", "a", "t", " ", "i", "s", " ", "t", "h", "i", "s", " ", "a", "b", "o", "u", "t">>}

TEMPORAL_KEYWORDS ==
    {<<"c", "o", "m", "p", "a", "r", "e">>,
     <<"t", "r", "e", "n", "d">>,
     <<"o", "v", "e", "r", " ", "t", "i", "m", "e">>}

detect_query_intent(query) ==
    bind(str_lower(query), LAMBDA q :
        IF \E k \in SUMMARY_KEYWORDS : contains(q, k) THEN "SUMMARY"
        ELSE IF \E k \in TEMPORAL_KEYWORDS : contains(q, k) THEN "TEMPORAL"
        ELSE "GRAPH_ONLY")

\* fetch_graph_context: a row for each MENTIONS edge from a section of the
\* document to a CORE or IMPORTANT entity.  The OPTIONAL MATCHes repeat a
\* row for each concept and time period of it; the stores hold fewer rows
\* than the limit.
fetch_graph_context(g, doc_id) ==
    UNION {{[section_id |-> s.section_id,
             section_title |-> s.title,
             entity |-> e.name,
             salience |-> e.salience] :
                e \in {x \in MatchEntity(g, m.doc_id, m.name) :
                          x.salience \in {"CORE", "IMPORTANT"}},
                s \in {x \in BagToSet(g.sections) :
                          x.doc_id = doc_id /\ x.section_id = m.section_id}} :
           m \in {x \in g.mentions : x.doc_id = doc_id}}

\* MATCH (c:Community {doc_id: $doc_id}) RETURN c.community_id, c.size: the
\* nodes that detection wrote and the nodes created with a summary, which
\* have no size.
community_rows(g, doc_id) ==
    {[community_id |-> c.community_id, has_size |-> TRUE, size |-> c.size] :
        c \in {x \in BagToSet(g.communities) : x.doc_id = doc_id}}
    \cup {[community_id |-> c.community_id, has_size |-> FALSE, size |-> 0] :
            c \in {x \in g.summarized : x.doc_id = doc_id}}

\* ORDER BY c.size DESC: a missing size first, then the larger size; rows
\* of equal size in any order.
Orderings(rows) ==
    LET ordered(a, b) == ~a.has_size \/ (b.has_size /\ a.size >= b.size)
    IN  {order \in [1..Cardinality(rows) -> rows] :
            /\ \A i, j \in DOMAIN order : i < j =>
                  order[i] # order[j] /\ ordered(order[i], order[j])}

\* MATCH (c:Community {community_id: $cid})-[:CONTAINS]->(s:Section): the
\* number of titles returned, for the communities of every document.
titles_of(g, cid) == Cardinality({x \in g.contains : x.community_id = cid})

\* MERGE of the CommunitySummary on (community_id, doc_id), SET of its
\* summary, and MERGE of the path from a Community node of these keys:
\* where no such path is stored, the path is created with a new Community
\* node.
write_summary(g, cid, doc_id, summary) ==
    [g EXCEPT
        !.summaries =
            {x \in @ : ~(x.community_id = cid /\ x.doc_id = doc_id)}
            \cup {[community_id |-> cid, doc_id |-> doc_id,
                   summary |-> summary]},
        !.summarized = @ \cup {[community_id |-> cid, doc_id |-> doc_id]}]

RECURSIVE summarize_each(_, _, _, _, _, _, _)
\* The loop of summarize_communities from row k of order on; call number n
\* of chat_completion has the outcomes runs[n], the last one for the calls
\* after it.
summarize_each(acc, order, k, doc_id, openai_api_key, groq_api_key, runs) ==
    IF k > Len(order) \/ acc.raised THEN acc
    ELSE bind(titles_of(acc.g, order[k].community_id), LAMBDA titles :
        IF titles = 0
        THEN summarize_each(acc, order, k + 1, doc_id,
                            openai_api_key, groq_api_key, runs)
        ELSE bind(runs[min(acc.calls + 1, Len(runs))], LAMBDA run :
          bind(bot9_chat_completion(openai_api_key, groq_api_key,
                                    run[1], run[2]), LAMBDA cc :
            IF cc.raised
            THEN [acc EXCEPT !.calls = @ + 1,
                             !.attempts = @ \o cc.attempts,
                             !.raised = TRUE]
            ELSE bind([g |-> write_summary(acc.g, order[k].community_id,
                                           doc_id, cc.response),
                       calls |-> acc.calls + 1,
                       attempts |-> acc.attempts \o cc.attempts,
                       raised |-> FALSE,
                       results |-> Append(acc.results,
                            [community_id |-> order[k].community_id,
                             sections |-> titles,
                             summary |-> cc.response])],
                      LAMBDA next :
                        summarize_each(next, order, k + 1, doc_id,
                                       openai_api_key, groq_api_key, runs)))))

\* summarize_communities, the rows of the first query returned in order
summarize_communities(g, doc_id, order, openai_api_key, groq_api_key, runs) ==
    summarize_each([g |-> g, calls |-> 0, attempts |-> <<>>,
                    raised |-> FALSE, results |-> <<>>],
                   order, 1, doc_id, openai_api_key, groq_api_key, runs)

NO_CONTEXT_ANSWER == "No relevant information found in the document graph."

\* global_query_v5 that asks the backend whatever the context rows are
global_query_without_context_test(g, question, doc_id, order, openai_api_key, groq_api_key, run, runs) ==
    bind(query_chat_completion(openai_api_key, groq_api_key, run[1], run[2]),
         LAMBDA cc :
            [g |-> g, raised |-> cc.raised,
             value |-> [query |-> question,
                        answer |-> [text |-> "generated",
                                    response |-> cc.response,
                                    overview |-> <<>>],
                        references |-> {}],
             llm |-> [called |-> TRUE, attempts |-> cc.attempts,
                      raised |-> cc.raised],
             summarized |-> FALSE, answered |-> ~cc.raised,
             results |-> <<>>])

\* global_query_v5.  The answer is the fixed text, or the backend's
\* response followed by the summaries of the overview; the references are
\* the (section, page) pairs of the rows, the page of a section that was
\* stored without page_start being None.
global_query_v5(g, question, doc_id, order, openai_api_key, groq_api_key, run, runs) ==
    bind(detect_query_intent(question), LAMBDA intent :
      bind(fetch_graph_context(g, doc_id), LAMBDA rows :
        IF rows = {}
        THEN [g |-> g, raised |-> FALSE,
              value |-> [query |-> question,
                         answer |-> [text |-> NO_CONTEXT_ANSWER,
                                     response |-> 0, overview |-> <<>>],
                         references |-> {}],
              llm |-> NoLlm, summarized |-> FALSE, answered |-> FALSE,
              results |-> <<>>]
        ELSE
          bind(query_chat_completion(openai_api_key, groq_api_key,
                                     run[1], run[2]), LAMBDA cc :
          bind({<<r.section_title, "None">> : r \in rows}, LAMBDA references :
            IF cc.raised \/ intent # "SUMMARY"
            THEN [g |-> g, raised |-> cc.raised,
                  value |-> [query |-> question,
                             answer |-> [text |-> "generated",
                                         response |-> cc.response,
                                         overview |-> <<>>],
                             references |-> references],
                  llm |-> [called |-> TRUE, attempts |-> cc.attempts,
                           raised |-> cc.raised],
                  summarized |-> FALSE, answered |-> ~cc.raised,
                  results |-> <<>>]
            ELSE
              bind(summarize_communities(g, doc_id, order, openai_api_key,
                                         groq_api_key, runs), LAMBDA summary :
                [g |-> summary.g, raised |-> summary.raised,
                 value |-> [query |-> question,
                            answer |-> [text |-> "generated",
                                        response |-> cc.response,
                                        overview |->
                                            [i \in DOMAIN summary.results |->
                                                summary.results[i].summary]],
                            references |-> references],
                 llm |-> [called |-> TRUE,
                          attempts |-> cc.attempts \o summary.attempts,
                          raised |-> summary.raised],
                 summarized |-> TRUE, answered |-> TRUE,
                 results |-> summary.results])))))

\* global_query on the stored graph.  The call records the intent, the
\* number of context rows, whether the backend answered the question,
\* whether summarize_communities was called and what it had summarized.
GlobalQuery(questions, doc_ids, summary_runs) ==
    \E question \in questions, doc_id \in doc_ids :
      \E order \in Orderings(community_rows(graph, doc_id)) :
        \E run \in TextOutcomes \X TextOutcomes, runs \in summary_runs :
          \E done \in {global_query_v5(graph, question, doc_id, order,
                                       openai_key, groq_key, run, runs)} :
            /\ graph' = done.g
            /\ call' = [op |-> "global_query", question |-> question,
                        doc_id |-> doc_id,
                        intent |-> detect_query_intent(question),
                        rows |-> Cardinality(fetch_graph_context(graph, doc_id)),
                        answered |-> done.answered,
                        summarized |-> done.summarized,
                        results |-> done.results]
            /\ ret' = IF done.raised THEN [raised |-> TRUE]
                      ELSE [raised |-> FALSE, value |-> done.value]
            /\ llm' = done.llm
            /\ UNCHANGED <<openai_key, groq_key>>

(***************************************************************************)
(* SpecQuery: questions of every intent asked of two documents whose       *)
(* sections mention no entity, a SUPPORTING entity only, or a CORE or an   *)
(* IMPORTANT entity, before and after community detection.                 *)
(***************************************************************************)
Questions ==
    {<<"S", "u", "m", "m", "a", "r", "i", "z", "e", " ", "t", "h", "e", " ", "r", "e", "p", "o", "r", "t">>,
     <<"C", "o", "m", "p", "a", "r", "e", " ", "r", "e", "v", "e", "n", "u", "e", " ", "o", "v", "e", "r", " ", "t", "i", "m", "e">>,
     <<"W", "h", "a", "t", " ", "i", "s", " ", "r", "e", "v", "e", "n", "u", "e", "?">>,
     <<"E", "x", "p", "l", "a", "i", "n", " ", "t", "h", "e", " ", "t", "r", "e", "n", "d">>}

\* The outcomes of the summary calls: all answered, and the second call
\* failing at both providers.
SummaryRuns == {<<<<1, 1>>>>, <<<<1, 1>>, <<0, 0>>>>}

QueryEntity == <<"R", "e", "v", "e", "n", "u", "e">>

\* A store of two sections of the default document, both mentioning one
\* entity of the given salience.
query_store(salience) ==
    bind(create_entity(with_sections(EmptyGraph, 2), QueryEntity, "METRIC",
                       <<>>, salience, DEFAULT_DOC_ID), LAMBDA g :
        link_entity_to_section(
            link_entity_to_section(g, QueryEntity, SectionNames[1],
                                   DEFAULT_DOC_ID),
            QueryEntity, SectionNames[2], DEFAULT_DOC_ID))

QueryStores ==
    {EmptyGraph, with_sections(EmptyGraph, 2)}
    \cup {query_store(salience) : salience \in Saliences}

InitQuery ==
    /\ graph \in QueryStores
    /\ call = NoCall
    /\ ret = NoRet
    /\ openai_key \in BOOLEAN
    /\ groq_key = TRUE
    /\ llm = NoLlm

NextQuery ==
    \/ GlobalQuery(Questions, DocIds, SummaryRuns)
    \/ DetectSectionCommunities({DEFAULT_DOC_ID})

SpecQuery == InitQuery /\ [][NextQuery]_vars

(***************************************************************************)
(* The row cap of fetch_graph_context.  ORDER BY e.salience DESC compares  *)
(* the salience strings: "IMPORTANT" is greater than "CORE", so the        *)
(* IMPORTANT rows come first; rows of equal salience come in any order.    *)
(* LIMIT keeps the first rows.  A result is the rows returned first        *)
(* (IMPORTANT), the rows returned after them (CORE) and the rows cut off.  *)
(***************************************************************************)
CONTEXT_LIMIT == 80

\* The sets of k rows of a set of rows.
RECURSIVE cuts(_, _)
cuts(rows, k) ==
    IF k = 0 THEN {{}}
    ELSE UNION {{c \cup {x} : x \in rows \ c} : c \in cuts(rows, k - 1)}

limited_context(g, doc_id, limit) ==
    bind(fetch_graph_context(g, doc_id), LAMBDA rows :
    bind({x \in rows : x.salience = "IMPORTANT"}, LAMBDA important :
    bind({x \in rows : x.salience = "CORE"}, LAMBDA core :
    bind(Cardinality(rows) - limit, LAMBDA over :
        IF over <= 0
        THEN {[first |-> important, then |-> core, cut |-> {}]}
        ELSE IF over <= Cardinality(core)
        THEN {[first |-> important, then |-> core \ c, cut |-> c] :
                 c \in cuts(core, over)}
        ELSE {[first |-> important \ c, then |-> {}, cut |-> core \cup c] :
                 c \in cuts(important, over - Cardinality(core))}))))

\* fetch_graph_context(neo4j, doc_id) with the default limit, applied to
\* the document the state holds.
FetchGraphContext ==
    /\ call.op = "document"
    /\ \E doc_id \in {call.doc_id} :
      \E result \in limited_context(graph, doc_id, CONTEXT_LIMIT) :
        /\ call' = [op |-> "fetch_graph_context", doc_id |-> doc_id,
                    first |-> result.first, then |-> result.then,
                    cut |-> result.cut]
        /\ ret' = [raised |-> FALSE,
                   value |-> Cardinality(result.first \cup result.then)]
        /\ UNCHANGED <<graph, openai_key, groq_key, llm>>

(***************************************************************************)
(* SpecContext: fetch_graph_context over stores of one section mentioning  *)
(* n entities, the first k of them IMPORTANT and the others CORE, with n   *)
(* below the limit, at the limit and MaxOverLimit above it.                *)
(***************************************************************************)
MaxOverLimit == 1

context_entity(i) == <<"e", i>>

context_store(n, k) ==
    [with_sections(EmptyGraph, 1) EXCEPT
        !.entities =
            SetToBag({[doc_id |-> DEFAULT_DOC_ID, name |-> context_entity(i),
                       type |-> "METRIC", description |-> <<>>,
                       salience |-> IF i <= k THEN "IMPORTANT" ELSE "CORE"] :
                          i \in 1..n}),
        !.mentions =
            {[doc_id |-> DEFAULT_DOC_ID, section_id |-> SectionNames[1],
              name |-> context_entity(i)] : i \in 1..n}]

ContextStores ==
    {context_store(n, k) :
        n \in {2, CONTEXT_LIMIT} \cup
              {CONTEXT_LIMIT + over : over \in 1..MaxOverLimit},
        k \in {0, 1, 2}}
    \cup {context_store(CONTEXT_LIMIT + MaxOverLimit, k) :
             k \in {CONTEXT_LIMIT, CONTEXT_LIMIT + MaxOverLimit}}

InitContext ==
    /\ graph \in ContextStores
    /\ call = [op |-> "document", doc_id |-> DEFAULT_DOC_ID]
    /\ ret = NoRet
    /\ openai_key = TRUE
    /\ groq_key = TRUE
    /\ llm = NoLlm

NextContext == FetchGraphContext

SpecContext == InitContext /\ [][NextContext]_vars

\* summarize_communities on the stored graph.  The call records the order
\* the first query returned its rows in and the outcomes of the backend.
\* Summaries written before a failing backend call stay in the store.
SummarizeCommunities(doc_ids, summary_runs) ==
    \E doc_id \in doc_ids, runs \in summary_runs :
      \E order \in Orderings(community_rows(graph, doc_id)) :
        \E done \in {summarize_communities(graph, doc_id, order,
                                           openai_key, groq_key, runs)} :
            /\ graph' = done.g
            /\ call' = [op |-> "summarize_communities", doc_id |-> doc_id,
                        order |-> order, runs |-> runs]
            /\ ret' = IF done.raised THEN [raised |-> TRUE]
                      ELSE [raised |-> FALSE, value |-> done.results]
            /\ llm' = [called |-> done.calls > 0, attempts |-> done.attempts,
                       raised |-> done.raised]
            /\ UNCHANGED <<openai_key, groq_key>>

(***************************************************************************)
(* SpecSummary: detection and summarization over stores of two documents,  *)
(* the default document with 1..MaxSummarySections sections and the        *)
(* document "report" with 0..MaxSummarySections sections.  No section is   *)
(* joined to another, so detection puts the sections of a document in its  *)
(* community 0.                                                            *)
(***************************************************************************)
MaxSummarySections == 2

\* The store after create_section for the first n sections of the default
\* document and the first m sections of the document "report".
two_documents(n, m) ==
    [with_sections(EmptyGraph, n) EXCEPT
        !.sections =
            @ (+) SetToBag({[doc_id |-> "report",
                             section_id |-> SectionNames[i],
                             title |-> SectionNames[i], level |-> 1] :
                                i \in 1..m})]

InitSummary ==
    /\ graph \in {two_documents(n, m) : n \in 1..MaxSummarySections,
                                        m \in 0..MaxSummarySections}
    /\ call = NoCall
    /\ ret = NoRet
    /\ openai_key \in BOOLEAN
    /\ groq_key = TRUE
    /\ llm = NoLlm

NextSummary ==
    \/ DetectSectionCommunities(DocIds)
    \/ SummarizeCommunities(DocIds, SummaryRuns)

SpecSummary == InitSummary /\ [][NextSummary]_vars

(***************************************************************************)
(* The indexing run (main.py, run_indexing_pipeline_v4).  The run is a     *)
(* process: call holds its position pc, the parsed document and its        *)
(* chunks, the number of connection checks made and the requests sent to   *)
(* the store after them.  A request may fail at any step, and the          *)
(* exception leaves the function.                                          *)
(***************************************************************************)

\* The step after verify_connection that ignores its result
after_verify_ignoring_result(connected) == "setup_indexes"

\* if not neo4j.verify_connection(): raise RuntimeError(...)
after_verify(connected) == IF connected THEN "setup_indexes" ELSE "raised"

\* The positions at which the run sends a request that changes the store
WritingSteps ==
    {"setup_indexes", "clear_graph", "create_sections", "extract",
     "normalize"}

\* The parsed documents: without sections, and with one section
ParsedDocuments ==
    {[text |-> t, sections |-> <<>>] : t \in {<<>>, <<"a">>}}
    \cup {[text |-> <<"a">>,
           sections |-> <<[section_id |-> "s1", has_text |-> TRUE,
                           text |-> <<"a">>]>>]}

\* Lines 61-64: the chunks of the parsed document
chunks_of_document(parsed, doc_id) ==
    IF parsed.sections # <<>>
    THEN build_chunks_from_sections(parsed.text, parsed.sections, doc_id,
                                    CHUNK_SIZE, CHUNK_OVERLAP).chunks
    ELSE build_chunks_without_sections(parsed.text, doc_id,
                                       CHUNK_SIZE, CHUNK_OVERLAP).chunks

\* The run as it enters the with block of line 71
pipeline_start(parsed, doc_id, clear_existing) ==
    [op |-> "run_indexing_pipeline_v4", pc |-> "verify",
     doc_id |-> doc_id, clear_existing |-> clear_existing,
     sections |-> parsed.sections,
     chunks |-> chunks_of_document(parsed, doc_id), next |-> 1,
     verified |-> 0, connected |-> FALSE, requests |-> <<>>]

running == call.op = "run_indexing_pipeline_v4"

\* The run moved to position pc after the request it sent
moved(pc, request) ==
    [call EXCEPT !.pc = pc, !.requests = Append(@, request)]

\* Line 72: the one connection check; its failure raises RuntimeError.
VerifyConnection ==
    /\ running /\ call.pc = "verify"
    /\ \E connected \in BOOLEAN :
          /\ call' = [call EXCEPT !.pc = after_verify(connected),
                                  !.verified = @ + 1,
                                  !.connected = connected]
          /\ ret' = [raised |-> ~connected]
    /\ UNCHANGED <<graph, openai_key, groq_key, llm>>

\* Line 75: the constraints and indexes are created
SetupIndexes ==
    /\ running /\ call.pc = "setup_indexes"
    /\ call' = moved(IF call.clear_existing THEN "clear_graph"
                     ELSE "create_sections", "setup_indexes")
    /\ UNCHANGED <<graph, ret, openai_key, groq_key, llm>>

\* Lines 77-79
PipelineClearGraph ==
    /\ running /\ call.pc = "clear_graph"
    /\ graph' = clear_graph(graph)
    /\ call' = moved("create_sections", "clear_graph")
    /\ UNCHANGED <<ret, openai_key, groq_key, llm>>

\* Lines 85-95: create_section is called with synthetic=, a keyword the
\* method does not take, so the first section raises TypeError before a
\* request is sent.
PipelineCreateSections ==
    /\ running /\ call.pc = "create_sections"
    /\ IF call.sections = <<>>
       THEN call' = [call EXCEPT !.pc = "extract"] /\ ret' = ret
       ELSE call' = [call EXCEPT !.pc = "raised"] /\ ret' = [raised |-> TRUE]
    /\ UNCHANGED <<graph, openai_key, groq_key, llm>>

\* Lines 105-113: process_section_text on the next chunk
PipelineProcessChunk(runs) ==
    /\ running /\ call.pc = "extract"
    /\ IF call.next > Len(call.chunks)
       THEN /\ call' = [call EXCEPT !.pc = "normalize"]
            /\ UNCHANGED <<graph, ret, llm>>
       ELSE \E chunk \in {call.chunks[call.next]} :
              \E run \in RunsFor(runs, chunk.text, FALSE) :
                \E x \in {extract_entities_and_relationships(
                              chunk.text, FALSE, run[1], run[2])} :
                  \E done \in {persist_extraction(graph, x.extraction,
                                                  chunk.section_id,
                                                  call.doc_id)} :
                    /\ graph' = done.g
                    /\ call' = [moved(IF done.raised THEN "raised"
                                      ELSE "extract", "process_section_text")
                                  EXCEPT !.next = @ + 1]
                    /\ ret' = [raised |-> done.raised]
                    /\ llm' = x.llm
    /\ UNCHANGED <<openai_key, groq_key>>

\* Lines 122-185: with no parsed section the lists handed to the
\* reference, time-period and fact stages are empty; line 141 normalizes
\* the entities of the document.
PipelineNormalize ==
    /\ running /\ call.pc = "normalize"
    /\ graph' = normalize_financial_entities(graph, call.doc_id).g
    /\ call' = moved("stats", "normalize_financial_entities")
    /\ UNCHANGED <<ret, openai_key, groq_key, llm>>

\* Lines 190-202: get_graph_stats has no key financial_concepts, so line
\* 197 raises KeyError after the client is closed.
PipelineStats ==
    /\ running /\ call.pc = "stats"
    /\ call' = [call EXCEPT !.pc = "raised"]
    /\ ret' = [raised |-> TRUE]
    /\ UNCHANGED <<graph, openai_key, groq_key, llm>>

\* A request to the store fails: the driver's exception leaves the run.
StoreUnavailable ==
    /\ running /\ call.pc \in WritingSteps
    /\ call' = [call EXCEPT !.pc = "raised"]
    /\ ret' = [raised |-> TRUE]
    /\ UNCHANGED <<graph, openai_key, groq_key, llm>>

\* A run starts on an empty store or on the store an earlier document left
PipelineStores == {EmptyGraph, with_sections(EmptyGraph, 2)}

InitPipeline ==
    /\ graph \in PipelineStores
    /\ call \in {pipeline_start(parsed, DEFAULT_DOC_ID, clear_existing) :
                    parsed \in ParsedDocuments, clear_existing \in BOOLEAN}
    /\ ret = NoRet
    /\ openai_key = TRUE
    /\ groq_key = TRUE
    /\ llm = NoLlm

NextPipeline ==
    \/ VerifyConnection
    \/ SetupIndexes
    \/ PipelineClearGraph
    \/ PipelineCreateSections
    \/ PipelineProcessChunk(DocRuns)
    \/ PipelineNormalize
    \/ PipelineStats
    \/ StoreUnavailable

SpecPipeline == InitPipeline /\ [][NextPipeline]_vars

(***************************************************************************)
(* The parser's sections (bots/bot1_parser.py).  A document is its pages,  *)
(* a page the levels of its headings in order; elements that are no        *)
(* heading of level 1 or 2 make no section and are left out.               *)
(***************************************************************************)
MaxPages == 2

MaxPageHeadings == 2

\* The headings of the pages in document order, each with its page number
RECURSIVE headings_of(_)
headings_of(pages) ==
    IF pages = <<>> THEN <<>>
    ELSE headings_of(SubSeq(pages, 1, Len(pages) - 1))
         \o [k \in 1..Len(pages[Len(pages)]) |->
                [level |-> pages[Len(pages)][k], page |-> Len(pages)]]

\* The sections appended while the pages are read: section_<n>, with
\* page_start and page_end the page of the heading
appended_sections(pages, source) ==
    bind(headings_of(pages), LAMBDA headings :
        [n \in 1..Len(headings) |->
            [section_id |-> <<"section", n>>,
             level |-> headings[n].level,
             page_start |-> headings[n].page,
             page_end |-> headings[n].page,
             synthetic |-> FALSE,
             source |-> source,
             has_parent |-> FALSE,
             parent_id |-> <<>>]])

\* extract_sections_from_docling: a level-2 section gets the id of the
\* last level-1 section before it, and every section but the last ends on
\* the page before the next section starts.
extract_sections_from_docling(pages) ==
    bind(appended_sections(pages, "docling_heading"), LAMBDA sections :
        [i \in 1..Len(sections) |->
            LET above == {j \in 1..(i - 1) : sections[j].level = 1}
                parent == CHOOSE j \in above : \A k \in above : k <= j
            IN  [sections[i] EXCEPT
                    !.has_parent = sections[i].level = 2 /\ above # {},
                    !.parent_id =
                        IF sections[i].level = 2 /\ above # {}
                        THEN sections[parent].section_id ELSE <<>>,
                    !.page_end =
                        IF i < Len(sections)
                        THEN sections[i + 1].page_start - 1
                        ELSE @]])

\* The sections of parse_json_document_with_structure: no parent is set,
\* and the last section ends on the last page.
parse_json_document_with_structure(pages) ==
    bind(appended_sections(pages, "json_heading"), LAMBDA sections :
        [i \in 1..Len(sections) |->
            [sections[i] EXCEPT
                !.page_end =
                    IF i < Len(sections)
                    THEN sections[i + 1].page_start - 1
                    ELSE Len(pages)]])

\* The parser applied to the document the state holds.
ExtractSectionsFromDocling ==
    /\ call.op = "docling_document"
    /\ \E done \in {extract_sections_from_docling(call.pages)} :
           /\ call' = [call EXCEPT !.op = "extract_sections_from_docling"]
           /\ ret' = [raised |-> FALSE, value |-> done]
    /\ UNCHANGED <<graph, openai_key, groq_key, llm>>

ParseJsonDocumentWithStructure ==
    /\ call.op = "json_document"
    /\ \E done \in {parse_json_document_with_structure(call.pages)} :
           /\ call' = [call EXCEPT
                         !.op = "parse_json_document_with_structure"]
           /\ ret' = [raised |-> FALSE, value |-> done]
    /\ UNCHANGED <<graph, openai_key, groq_key, llm>>

\* The pages: none to MaxPageHeadings headings each, of level 1 or 2
PageHeadings ==
    UNION {[1..n -> {1, 2}] : n \in 0..MaxPageHeadings}

ParsedPages == UNION {[1..n -> PageHeadings] : n \in 0..MaxPages}

InitParse ==
    /\ graph = EmptyGraph
    /\ call \in {[op |-> op, pages |-> pages] :
                    op \in {"docling_document", "json_document"},
                    pages \in ParsedPages}
    /\ ret = NoRet
    /\ openai_key = TRUE
    /\ groq_key = TRUE
    /\ llm = NoLlm

NextParse ==
    \/ ExtractSectionsFromDocling
    \/ ParseJsonDocumentWithStructure

SpecParse == InitParse /\ [][NextParse]_vars

(***************************************************************************)
(* Claims about create_entity, checked under Spec.                         *)
(***************************************************************************)

\* C1: in every step, an entity that is stored before and after the step
\* changes its salience only from SUPPORTING to CORE or from SUPPORTING to
\* IMPORTANT; a CORE or IMPORTANT salience is never changed by an upsert.
C1_SalienceOnlyPromoted ==
    [][\A e \in BagToSet(graph.entities) :
         \A f \in MatchEntity(graph', e.doc_id, e.name) :
            f.salience # e.salience =>
                /\ e.salience = "SUPPORTING"
                /\ f.salience \in {"CORE", "IMPORTANT"}]_vars

\* The last call upserted with SUPPORTING an entity stored as CORE, and
\* the entity is still CORE.
C1_Witness ==
    /\ call.op = "create_entity"
    /\ call.salience = "SUPPORTING"
    /\ \E e \in call.matched : e.salience = "CORE"
    /\ ret.value.salience = "CORE"
    /\ \A f \in MatchEntity(graph, call.doc_id, call.name) : f.salience = "CORE"

\* C2: from every reachable store and for every input, the store after two
\* identical upserts equals the store after one, and holds exactly one
\* node for the key.
C2_UpsertIdempotent ==
    \A key \in EntityKeys, t \in EntityTypes, d \in Descriptions, s \in Saliences :
        LET once  == create_entity(graph, key[2], t, d, s, key[1])
            twice == create_entity(once, key[2], t, d, s, key[1])
        IN  /\ twice = once
            /\ \A e \in MatchEntity(twice, key[1], key[2]) :
                  CopiesIn(e, twice.entities) = 1
            /\ Cardinality(MatchEntity(twice, key[1], key[2])) = 1

\* The last call repeated an upsert: it matched a node that already held
\* its type, description and salience (as the same upsert leaves it) and
\* left that node, alone for its key, as it was.
C2_Witness ==
    /\ call.op = "create_entity"
    /\ \E e \in call.matched :
          /\ e.type = call.type
          /\ e.description = call.description
          /\ e.salience = call.salience
          /\ call.description # <<>>
          /\ MatchEntity(graph, call.doc_id, call.name) = {e}
          /\ CopiesIn(e, graph.entities) = 1

\* C3: on re-encounter the stored description becomes the new one exactly
\* when the new one is strictly longer, and is otherwise kept: its length
\* never decreases and an equal-length or shorter one never overwrites it.
C3_DescriptionLongerWins ==
    \A key \in EntityKeys, t \in EntityTypes, d \in Descriptions, s \in Saliences :
        \A e \in MatchEntity(graph, key[1], key[2]) :
            \A f \in MatchEntity(create_entity(graph, key[2], t, d, s, key[1]),
                                 key[1], key[2]) :
                /\ f.description \in {d, e.description}
                /\ Len(f.description) >= Len(e.description)
                /\ (f.description # e.description) <=> (Len(d) > Len(e.description))

\* The last call re-encountered an entity with another description of the
\* same length as the stored one, and the stored one was kept.
C3_Witness ==
    /\ call.op = "create_entity"
    /\ \E e \in call.matched :
          /\ Len(call.description) = Len(e.description)
          /\ call.description # e.description
          /\ \A f \in MatchEntity(graph, call.doc_id, call.name) :
                f.description = e.description

(***************************************************************************)
(* Claims about create_relationship, checked under SpecRel.                *)
(***************************************************************************)

\* C4: a create_relationship call whose type is outside the allowed set, or
\* whose source and target names normalize to the same string, returns
\* false and leaves the store as it was; and the store never holds an
\* Entity-to-Entity edge from an entity to itself.
C4_RejectsTypeAndSelfLoop ==
    /\ [][(/\ call'.op = "create_relationship"
           /\ \/ upper(call'.rel_type) \notin allowed
              \/ normalize_name(call'.source_name)
                    = normalize_name(call'.target_name))
          => (ret'.value = FALSE /\ graph' = graph)]_vars
    /\ [](\A r \in BagToSet(graph.rels) : r.src # r.tgt)

(***************************************************************************)
(* Claims about the entity/relationship stage and the provider failover,   *)
(* checked under SpecStage.                                                *)
(***************************************************************************)

\* C7: process_section_text never raises, whatever the backend returned.
C7_StageNeverRaises ==
    call.op = "process_section_text" => ~ret.raised

\* C8: for is_empty = true or a text that is empty or whitespace only,
\* extract_entities_and_relationships returns the empty extraction and no
\* provider is attempted.
C8_EmptyChunkSkipsBackend ==
    (/\ call.op = "extract_entities_and_relationships"
     /\ call.is_empty \/ \A i \in 1..Len(call.text) : IsSpace(call.text[i]))
    => /\ Len(ret.value.entities) = 0
       /\ Len(ret.value.relationships) = 0
       /\ ~llm.called
       /\ llm.attempts = <<>>

\* A whitespace-only text, not flagged is_empty, with a provider configured:
\* the call returned without any attempt.
C8_Witness ==
    /\ call.op = "extract_entities_and_relationships"
    /\ ~call.is_empty
    /\ call.text = <<" ", "\n">>
    /\ openai_key
    /\ llm.attempts = <<>>

\* C9: in every logical chat_completion call each provider is attempted at
\* most once, OpenAI before Groq and only when configured, Groq only when
\* configured and OpenAI is unconfigured or its attempt failed; the call
\* raises exactly when its last attempt failed or no provider was there to
\* attempt, and then nothing follows the failed fallback.
C9_SingleAttemptFailover ==
    LET a == llm.attempts
        of(p) == {i \in DOMAIN a : a[i].provider = p}
    IN  llm.called =>
          /\ Cardinality(of("openai")) <= 1
          /\ Cardinality(of("groq")) <= 1
          /\ \A i \in of("openai") : openai_key /\ i = 1
          /\ \A i \in of("groq") :
                /\ groq_key
                /\ i = Len(a)
                /\ ~openai_key \/ \E j \in of("openai") : j < i /\ a[j].failed
          /\ llm.raised <=> (a = <<>> \/ a[Len(a)].failed)
          /\ llm.raised => (~groq_key \/ a[Len(a)].provider = "groq")

\* A call in which OpenAI failed, Groq was tried once and failed too, and
\* the call raised after those two attempts.
C9_Witness ==
    /\ llm.called
    /\ llm.raised
    /\ Len(llm.attempts) = 2
    /\ llm.attempts[1] = [provider |-> "openai", failed |-> TRUE]
    /\ llm.attempts[2] = [provider |-> "groq", failed |-> TRUE]

(***************************************************************************)
(* Claims about the documents the stages write under, checked under        *)
(* SpecDoc.                                                                *)
(***************************************************************************)

\* C5: every Entity node and every Entity-to-Entity relationship that a
\* step of the entity/relationship stage or of the financial-fact stage
\* writes while it processes document D carries doc_id = D.
C5_WritesDocScoped ==
    [][call'.op \in {"process_section_text", "extract_facts_from_tables"} =>
         /\ \A e \in BagToSet(graph'.entities) :
                CopiesIn(e, graph'.entities) > CopiesIn(e, graph.entities)
                => e.doc_id = call'.doc_id
         /\ \A r \in BagToSet(graph'.rels) :
                CopiesIn(r, graph'.rels) > CopiesIn(r, graph.rels)
                => r.doc_id = call'.doc_id]_vars

(***************************************************************************)
(* Claims about the GLOBAL nodes, checked under SpecGlobal.                *)
(***************************************************************************)

\* C6: whatever time-period and financial-concept writes were issued, for
\* whichever documents, the store holds at most one TimePeriod node per
\* label and at most one FinancialConcept node per name.
C6_GlobalNodesNotDuplicated ==
    /\ \A t \in BagToSet(graph.timeperiods) :
          /\ CopiesIn(t, graph.timeperiods) = 1
          /\ \A u \in BagToSet(graph.timeperiods) : u.label = t.label => u = t
    /\ \A fc \in BagToSet(graph.concepts) :
          /\ CopiesIn(fc, graph.concepts) = 1
          /\ \A fd \in BagToSet(graph.concepts) : fd.name = fc.name => fd = fc

\* The normalizer ran for the second document and met the concept the
\* first document's run created, while a time period written by
\* create_timeperiod has since been merged on by persist_timeperiods for
\* the sections of both documents.
C6_Witness ==
    /\ call.op = "normalize_financial_entities"
    /\ call.doc_id = "report"
    /\ call.matched # {}
    /\ Cardinality({l.doc_id : l \in graph.normalized_to}) = 2
    /\ \E t \in BagToSet(graph.timeperiods) :
          /\ t.scope = Absent
          /\ Cardinality({l.doc_id : l \in {x \in graph.applies_to :
                                               x.label = t.label}}) = 2

(***************************************************************************)
(* Claims about the chunker, checked under SpecChunk.                      *)
(***************************************************************************)

\* The chunks' token slices joined: the first whole, every later one
\* without its first `overlap` tokens.
joined_without_overlap(slices, overlap) ==
    LET joined[i \in 0..Len(slices)] ==
            IF i = 0 THEN <<>>
            ELSE IF i = 1 THEN slices[1]
            ELSE joined[i - 1]
                 \o SubSeq(slices[i], overlap + 1, Len(slices[i]))
    IN  joined[Len(slices)]

\* C10: for every section split by chunk_by_tokens with chunk_size = 600
\* and overlap = 100, the first chunk's tokens followed by every later
\* chunk's tokens without their first 100 are exactly the section's token
\* sequence.
C10_ChunkCoverage ==
    (/\ call.op = "chunk_by_tokens"
     /\ call.chunk_size = CHUNK_SIZE
     /\ call.overlap = CHUNK_OVERLAP)
        => /\ ~ret.raised
           /\ Len(ret.value) = Len(call.chunk_tokens)
           /\ \A i \in 1..Len(ret.value) :
                  ret.value[i] = decode(call.chunk_tokens[i])
           /\ joined_without_overlap(call.chunk_tokens, CHUNK_OVERLAP)
                  = encode(call.text)

\* A section split into three chunks, the last one a partial remainder.
C10_Witness ==
    /\ call.op = "chunk_by_tokens"
    /\ call.chunk_size = CHUNK_SIZE
    /\ call.overlap = CHUNK_OVERLAP
    /\ ~ret.raised
    /\ Len(ret.value) = 3
    /\ Len(call.chunk_tokens[3]) < CHUNK_SIZE
    /\ Len(call.chunk_tokens[3]) > CHUNK_OVERLAP
    /\ joined_without_overlap(call.chunk_tokens, CHUNK_OVERLAP)
           = encode(call.text)

\* The chunks of the returned list that belong to the i-th section.
chunks_of(chunks, section) ==
    {k \in 1..Len(chunks) : chunks[k].section_id = section.section_id}

\* C11: build_chunks_from_sections with the configured settings returns,
\* and whenever it returns, every section has at least one chunk, the
\* chunks follow the order of the sections with ordinals 1, 2, ... inside a
\* section, a section whose text is empty or whitespace only has exactly
\* one chunk, with is_empty true, text "" and ordinal 1, and every chunk of
\* a section with text has is_empty false.
C11_SectionCoverage ==
    call.op = "build_chunks_from_sections" =>
        /\ (call.chunk_size = CHUNK_SIZE /\ call.overlap = CHUNK_OVERLAP)
               => ~ret.raised
        /\ ~ret.raised =>
            /\ \A i \in 1..Len(call.sections) :
                  LET section == call.sections[i]
                      mine == chunks_of(ret.value, section)
                      text == extract_text_for_section(<<>>, section)
                  IN  /\ mine # {}
                      /\ \A k \in mine :
                            ret.value[k].chunk_id[3]
                                = Cardinality({j \in mine : j <= k})
                      /\ strip(text) = <<>> =>
                            /\ Cardinality(mine) = 1
                            /\ \A k \in mine :
                                  /\ ret.value[k].is_empty
                                  /\ ret.value[k].text = <<>>
                                  /\ ret.value[k].chunk_id[3] = 1
                      /\ strip(text) # <<>> =>
                            \A k \in mine : ~ret.value[k].is_empty
            /\ \A i, j \in 1..Len(call.sections) :
                  i < j => \A k \in chunks_of(ret.value, call.sections[i]),
                              l \in chunks_of(ret.value, call.sections[j]) :
                                  k < l
            /\ \A k \in 1..Len(ret.value) : ret.value[k].chunk_index = k - 1

\* A document whose first section is blank and whose second is split into
\* several chunks.
C11_Witness ==
    /\ call.op = "build_chunks_from_sections"
    /\ ~ret.raised
    /\ Len(call.sections) = 2
    /\ call.sections[1].has_text
    /\ call.sections[1].text = <<" ", "\n">>
    /\ ret.value[1].is_empty
    /\ ret.value[1].text = <<>>
    /\ Len(ret.value) >= 3
    /\ ~ret.value[2].is_empty
    /\ ret.value[3].chunk_id = <<"doc-1", "s2", 2>>

\* C12: whatever text, chunk_size and overlap chunk_by_tokens is called
\* with, a call that returns has no chunk of more than MAX_CHUNK_SIZE
\* tokens.
C12_HardCeiling ==
    (call.op = "chunk_by_tokens" /\ ~ret.raised) =>
        \A i \in 1..Len(ret.value) :
            count_tokens(ret.value[i]) <= MAX_CHUNK_SIZE

(***************************************************************************)
(* Claims about the deterministic extractors, checked under SpecExtract.   *)
(***************************************************************************)

\* C13: every reference extract_cross_section_references returns comes
\* from a locator match whose window of 60 characters before and after
\* holds a cue word; "Total assets were 42." gives no reference, and
\* "see Table 2 for details" gives exactly one reference, of type TABLE
\* and with reason DETAILED_IN.
C13_ReferenceContextGate ==
    call.op = "extract_cross_section_references" =>
        /\ \A i \in 1..Len(ret.value) :
              \E n \in 1..Len(REFERENCE_PATTERNS) :
                  LET hits == finditer(call.text,
                                       REFERENCE_PATTERNS[n].pattern, TRUE)
                  IN  \E h \in 1..Len(hits) :
                        /\ REFERENCE_PATTERNS[n].ref_type
                              = ret.value[i].reference_type
                        /\ hits[h].caps[1] = ret.value[i].target_locator
                        /\ has_cue(reference_window(call.text, hits[h]))
        /\ call.text = NoCueText => ret.value = <<>>
        /\ call.text = SeeTableText =>
              /\ Len(ret.value) = 1
              /\ ret.value[1].reference_type = "TABLE"
              /\ ret.value[1].reason = "DETAILED_IN"

\* C14: every period extract_timeperiods returns, from a pattern or from
\* the calendar-year pass, has its year in 1990..2050; "in 1850 results
\* were strong" gives no period and "FY2024 revenue grew" gives exactly the
\* period with label FY2024, year 2024 and type ANNUAL.
C14_TimePeriodRange ==
    call.op = "extract_timeperiods" =>
        /\ \A i \in 1..Len(ret.value) :
              /\ ret.value[i].year >= 1990
              /\ ret.value[i].year <= 2050
        /\ call.text = OldYearText => ret.value = <<>>
        /\ call.text = FiscalYearText =>
              ret.value = <<[label |-> <<"F", "Y", "2", "0", "2", "4">>, year |-> 2024,
                             period_type |-> "ANNUAL"]>>

\* A text with fiscal years below, inside and above the range, of which
\* the one inside is returned, as a fiscal and as a calendar year.
C14_Witness ==
    /\ call.op = "extract_timeperiods"
    /\ call.text = MixedYearsText
    /\ Len(ret.value) = 2
    /\ ret.value[2].period_type = "CALENDAR"
    /\ ret.value[2].year = 2024
    /\ ret.value[1].label = <<"F", "Y", "2", "0", "2", "4">>
    /\ ret.value[1].year = 2024

(***************************************************************************)
(* Claims about the section communities, checked under SpecCommunity.      *)
(***************************************************************************)

\* The Community nodes of the call's document and the sections one holds
communities_in(g, doc_id) ==
    {c \in BagToSet(g.communities) : c.doc_id = doc_id}

contained(g, doc_id, community_id) ==
    {x.section_id : x \in {y \in g.contains :
                              /\ y.doc_id = doc_id
                              /\ y.community_id = community_id}}

\* The section graph of the call, from what the call recorded
called_graph == [nodes |-> DOMAIN call.partition, weight |-> call.weight]

\* C15: with n nodes and e edges in the section graph, n = 0 gives the
\* empty result; 0 < n <= 15 gives small mode, and with e = 0 exactly one
\* community, of all n sections and with modularity 0; n > 15 never gives
\* small mode and gives "skipped" when e < n.
C15_ModeSelection ==
    call.op = "detect_section_communities" =>
        /\ call.n_nodes = 0 => ret.value = [status |-> "empty"]
        /\ (0 < call.n_nodes /\ call.n_nodes <= SMALL_DOCUMENT_NODES) =>
              /\ ret.value.status = "ok"
              /\ ret.value.mode = "small"
              /\ call.n_edges = 0 =>
                    /\ ret.value.communities = 1
                    /\ ret.value.modularity.num = 0
                    /\ communities_in(graph, call.doc_id)
                          = {[community_id |-> <<"0">>,
                              doc_id |-> call.doc_id,
                              size |-> call.n_nodes,
                              modularity |-> [num |-> 0, den |-> 1],
                              mode |-> "small"]}
                    /\ contained(graph, call.doc_id, <<"0">>)
                          = section_rows(graph, call.doc_id)
        /\ call.n_nodes > SMALL_DOCUMENT_NODES =>
              /\ ret.value.status \in {"skipped", "rejected", "ok"}
              /\ ret.value.status = "ok" => ret.value.mode = "normal"
              /\ call.n_edges < call.n_nodes =>
                    ret.value.status = "skipped"

\* A document of 15 unconnected sections made one community of size 15.
C15_Witness ==
    /\ call.op = "detect_section_communities"
    /\ call.n_nodes = SMALL_DOCUMENT_NODES
    /\ call.n_edges = 0
    /\ ret.value.mode = "small"
    /\ ret.value.communities = 1
    /\ \E c \in communities_in(graph, call.doc_id) :
          c.size = SMALL_DOCUMENT_NODES /\ c.modularity.num = 0

\* C16: a detect_section_communities call that finds no section, or in
\* normal mode fewer edges than nodes, or in normal mode a modularity
\* below 0.15, leaves the graph as it was, and reports empty, skipped or
\* rejected.
C16_DeclineWritesNothing ==
    [][(/\ call'.op = "detect_section_communities"
        /\ \/ call'.n_nodes = 0
           \/ /\ call'.n_nodes > SMALL_DOCUMENT_NODES
              /\ \/ call'.n_edges < call'.n_nodes
                 \/ below_threshold(
                        modularity_of(call'.partition,
                                      [nodes |-> DOMAIN call'.partition,
                                       weight |-> call'.weight])))
          => /\ graph' = graph
             /\ ret'.value.status \in {"empty", "skipped", "rejected"}]_vars

\* A rejected detection in a graph that holds the communities of an
\* earlier one.
C16_Witness ==
    /\ call.op = "detect_section_communities"
    /\ call.n_nodes > SMALL_DOCUMENT_NODES
    /\ call.n_edges >= call.n_nodes
    /\ ret.value.status = "rejected"
    /\ communities_in(graph, call.doc_id) # {}

\* C17: every Community node written in normal mode has at least two
\* member sections, and a normal-mode call persists the communities of the
\* partition that have at least two members and no other; a small-mode
\* call on a graph with an edge persists every community of the
\* partition, singletons too, whatever the modularity.
C17_SingletonPolicy ==
    /\ \A c \in BagToSet(graph.communities) :
          c.mode = "normal" =>
              /\ c.size >= 2
              /\ Cardinality(contained(graph, c.doc_id, c.community_id)) >= 2
    /\ call.op = "detect_section_communities" =>
        LET members == communities_of(call.partition)
            written(cid) ==
                \E c \in communities_in(graph, call.doc_id) :
                    /\ c.community_id = str_int(cid)
                    /\ c.size = Cardinality(members[cid])
                    /\ c.modularity = modularity_of(call.partition, called_graph)
                    /\ members[cid]
                          \subseteq contained(graph, call.doc_id, str_int(cid))
        IN  /\ (call.n_nodes > SMALL_DOCUMENT_NODES /\ ret.value.status = "ok") =>
                  /\ ret.value.communities
                        = Cardinality({cid \in DOMAIN members :
                                          Cardinality(members[cid]) >= 2})
                  /\ \A cid \in DOMAIN members :
                        Cardinality(members[cid]) >= 2 => written(cid)
            /\ (/\ 0 < call.n_nodes
                 /\ call.n_nodes <= SMALL_DOCUMENT_NODES
                 /\ call.n_edges >= 1) =>
                  /\ ret.value.status = "ok"
                  /\ ret.value.communities = Cardinality(DOMAIN members)
                  /\ \A cid \in DOMAIN members : written(cid)

\* A normal-mode call whose partition has a singleton and which persisted
\* the other communities only.
C17_Witness ==
    /\ call.op = "detect_section_communities"
    /\ call.n_nodes > SMALL_DOCUMENT_NODES
    /\ ret.value.status = "ok"
    /\ ret.value.mode = "normal"
    /\ \E cid \in DOMAIN communities_of(call.partition) :
          Cardinality(communities_of(call.partition)[cid]) = 1
    /\ ret.value.communities
          = Cardinality(DOMAIN communities_of(call.partition)) - 1

salient_mention(g, doc_id) ==
    \E m \in g.mentions :
        /\ m.doc_id = doc_id
        /\ \E s \in BagToSet(g.sections) :
              s.doc_id = doc_id /\ s.section_id = m.section_id
        /\ \E e \in BagToSet(g.entities) :
              /\ e.doc_id = m.doc_id
              /\ e.name = m.name
              /\ e.salience \in {"CORE", "IMPORTANT"}

\* C19: a global_query call on a graph in which no section of the queried
\* document mentions a CORE or IMPORTANT entity returns the fixed answer
\* with no references, whatever the question and its intent, calls neither
\* the backend nor summarize_communities, and leaves the graph as it was.
C19_NoContextNoBackend ==
    [][(/\ call'.op = "global_query"
        /\ ~salient_mention(graph, call'.doc_id))
          => /\ ret' = [raised |-> FALSE,
                        value |-> [query |-> call'.question,
                                   answer |-> [text |-> NO_CONTEXT_ANSWER,
                                               response |-> 0,
                                               overview |-> <<>>],
                                   references |-> {}]]
             /\ ~llm'.called
             /\ llm'.attempts = <<>>
             /\ ~call'.summarized
             /\ graph' = graph]_vars

\* A SUMMARY question asked of a document whose sections mention a
\* SUPPORTING entity only and which has a stored community: the fixed
\* answer, and no call of the backend.
C19_Witness ==
    /\ call.op = "global_query"
    /\ call.intent = "SUMMARY"
    /\ call.doc_id = DEFAULT_DOC_ID
    /\ ~salient_mention(graph, call.doc_id)
    /\ \E m \in graph.mentions : m.doc_id = call.doc_id
    /\ \E c \in BagToSet(graph.communities) : c.doc_id = call.doc_id
    /\ ret.value.answer.text = NO_CONTEXT_ANSWER
    /\ ret.value.references = {}
    /\ ~llm.called

(***************************************************************************)
(* Claims about the column names of the financial tables, checked under    *)
(* SpecExtract.                                                            *)
(***************************************************************************)

\* The name is a scope GROUP or COMPANY in any case, an underscore and four
\* digits.
scope_year(col) ==
    \E scope \in {<<"G", "R", "O", "U", "P">>,
                  <<"C", "O", "M", "P", "A", "N", "Y">>} :
        /\ Len(col) = Len(scope) + 5
        /\ str_upper(SubSeq(col, 1, Len(scope))) = scope
        /\ col[Len(scope) + 1] = "_"
        /\ \A i \in (Len(scope) + 2)..Len(col) : col[i] \in DigitChars

\* C20: parse_column returns the upper-case scope and the year for a name
\* that is GROUP or COMPANY in any case, an underscore and a 4-digit year,
\* and (None, None) for every other name.
C20_ParseColumn ==
    call.op = "parse_column" =>
        IF scope_year(call.col)
        THEN /\ ret.value.ok
             /\ ret.value.scope
                  = str_upper(SubSeq(call.col, 1, Len(call.col) - 5))
             /\ ret.value.year
                  = SubSeq(call.col, Len(call.col) - 3, Len(call.col))
        ELSE ~ret.value.ok

(***************************************************************************)
(* Claims about the indexing run, checked under SpecPipeline.              *)
(***************************************************************************)

\* C21: every step of a run of run_indexing_pipeline_v4 leaves it with
\* the connection verified at most once, and once as soon as the run is
\* past the check; requests have been sent only after a check that
\* succeeded; a run whose check failed has raised and has sent no request;
\* and a step of a run that has no successful check leaves the store as it
\* was.
C21_ConnectivityGate ==
    [][running' =>
        /\ call'.verified <= 1
        /\ call'.pc # "verify" => call'.verified = 1
        /\ call'.requests # <<>> => call'.verified = 1 /\ call'.connected
        /\ (call'.verified = 1 /\ ~call'.connected) =>
              /\ call'.pc = "raised"
              /\ ret'.raised
              /\ call'.requests = <<>>
        /\ ~call'.connected => graph' = graph]_vars

\* A run asked to clear a store that holds sections, whose verification
\* failed: it raised, and the sections are still stored.
C21_Witness ==
    /\ running
    /\ call.clear_existing
    /\ call.verified = 1
    /\ ~call.connected
    /\ call.pc = "raised"
    /\ call.requests = <<>>
    /\ graph # EmptyGraph

(***************************************************************************)
(* Claims about the parser's sections, checked under SpecParse.            *)
(***************************************************************************)

\* C22: every section the parser returns has page_start <= page_end, and a
\* level-2 section with a parent_id has the id of the nearest level-1
\* section before it.
C22_SectionInvariant ==
    call.op \in {"extract_sections_from_docling",
                 "parse_json_document_with_structure"} =>
        \A i \in DOMAIN ret.value :
            /\ ret.value[i].page_start <= ret.value[i].page_end
            /\ (ret.value[i].level = 2 /\ ret.value[i].has_parent) =>
                  \E j \in 1..(i - 1) :
                      /\ ret.value[j].level = 1
                      /\ ret.value[j].section_id = ret.value[i].parent_id
                      /\ \A k \in (j + 1)..(i - 1) : ret.value[k].level # 1

C24_FactProvenance ==
    call.op = "extract_facts_from_tables" =>
        \A f \in BagToSet(graph.facts) :
            f.doc_id = call.doc_id =>
                /\ [doc_id |-> f.doc_id, section_id |-> call.section_id,
                    metric |-> f.metric, value |-> f.value,
                    period_value |-> f.period_value] \in graph.states
                /\ [doc_id |-> f.doc_id, metric |-> f.metric,
                    value |-> f.value, period_value |-> f.period_value,
                    name |-> f.metric] \in graph.measures

(***************************************************************************)
(* Claims about the counts of persist_extraction, checked under SpecStage. *)
(***************************************************************************)

\* C25: when process_section_text returns, the relationships count of
\* persist_extraction equals the number of relationship entries for which
\* an edge was merged between two existing entities.
C25_RelationshipCount ==
    (call.op = "process_section_text" /\ ~ret.raised) =>
        ret.value.relationships = call.merged

(***************************************************************************)
(* Claims about the loop of chunk_by_tokens, checked under SpecSplit.      *)
(***************************************************************************)

is_slice_of(text, full) ==
    \E i \in 1..(Len(full) + 1), j \in 0..Len(full) : SubSeq(full, i, j) = text

\* C27: every chunk build_chunks_from_sections returns has a text cut from
\* the normalized text of its section, with no run of 3 or more newlines
\* and no run of 2 or more spaces or tabs.
C27_NormalizedChunks ==
    (call.op = "build_chunks_from_sections" /\ ~ret.raised) =>
        \A k \in 1..Len(ret.value) :
            \A i \in 1..Len(call.sections) :
                call.sections[i].section_id = ret.value[k].section_id =>
                    LET text == ret.value[k].text
                        text_of_section ==
                            extract_text_for_section(<<>>, call.sections[i])
                    IN  /\ is_slice_of(text, normalize_text(text_of_section))
                        /\ \A n \in 1..(Len(text) - 1) :
                               ~(IsBlank(text[n]) /\ IsBlank(text[n + 1]))
                        /\ \A n \in 1..(Len(text) - 2) :
                               ~(/\ text[n] = "\n" /\ text[n + 1] = "\n"
                                 /\ text[n + 2] = "\n")

(***************************************************************************)
(* Claims about the row cap of the graph context, checked under            *)
(* SpecContext.                                                            *)
(***************************************************************************)

\* C28: in the rows fetch_graph_context returns no IMPORTANT row comes
\* before a CORE row, and no IMPORTANT row is returned while a CORE row of
\* the document is cut off by the limit.
C28_CoreFirst ==
    call.op = "fetch_graph_context" =>
        /\ ~(call.first # {} /\ call.then # {})
        /\ \A x \in call.first \cup call.then :
               x.salience = "IMPORTANT" =>
                   \A y \in call.cut : y.salience # "CORE"

(***************************************************************************)
(* Claims about repeated community detection, checked under SpecCommunity. *)
(***************************************************************************)

\* C29: after any number of runs of detect_section_communities on a
\* document, every section of it is contained in at most one Community of
\* the document, and the size of each Community is the number of sections
\* it CONTAINS.
C29_PartitionKept ==
    call.op = "detect_section_communities" =>
        /\ \A x, y \in graph.contains :
              (/\ x.doc_id = call.doc_id /\ y.doc_id = call.doc_id
               /\ x.section_id = y.section_id)
                  => x.community_id = y.community_id
        /\ \A c \in BagToSet(graph.communities) :
              c.doc_id = call.doc_id =>
                  c.size = Cardinality({x \in graph.contains :
                                           /\ x.doc_id = c.doc_id
                                           /\ x.community_id = c.community_id})

(***************************************************************************)
(* Claims about the scope of the community summaries, checked under        *)
(* SpecSummary.                                                            *)
(***************************************************************************)

\* The store with the sections, communities, memberships and summaries of
\* one document only.
only_document(g, doc_id) ==
    [g EXCEPT
        !.sections = SetToBag({x \in BagToSet(@) : x.doc_id = doc_id}),
        !.communities = SetToBag({x \in BagToSet(@) : x.doc_id = doc_id}),
        !.contains = {x \in @ : x.doc_id = doc_id},
        !.summaries = {x \in @ : x.doc_id = doc_id},
        !.summarized = {x \in @ : x.doc_id = doc_id}]

\* C30: what summarize_communities(doc_id = A) returns and the
\* CommunitySummary nodes of A it leaves are what it returns and leaves on
\* the store that holds document A alone: the sections and communities of
\* another document change neither.
C30_DocScoped ==
    [][(call'.op = "summarize_communities" /\ ~ret'.raised) =>
          LET alone == summarize_communities(
                           only_document(graph, call'.doc_id), call'.doc_id,
                           call'.order, openai_key, groq_key, call'.runs)
          IN  /\ ~alone.raised
              /\ ret'.value = alone.results
              /\ {x \in graph'.summaries : x.doc_id = call'.doc_id}
                     = alone.g.summaries]_vars

====
